---------------------------- MODULE Spec2Model ----------------------------
(***************************************************************************)
(* Model of the omnisearch SDK: the webSearch fan-out/aggregation engine   *)
(* (src/src/index.ts), the debug hook (src/src/utils/debug.ts) and the     *)
(* provider adapters (src/src/providers/perplexity.ts, parallel, arxiv).   *)
(*                                                                         *)
(* JavaScript strings are TLA+ strings; String.prototype.includes is a     *)
(* real substring search.  `undefined` is the sentinel NoValue for string  *)
(* fields and the flag `defined` for structured fields.  A JavaScript      *)
(* run-to-completion block is one action, except the provider.map loop of  *)
(* webSearch, which is one action per adapter so that the order of the     *)
(* invocations is visible.                                                 *)
(***************************************************************************)
EXTENDS Integers, Sequences, FiniteSets, TLC

\* ------------------------------------------------------------------------
\* Bounds of the model
\* ------------------------------------------------------------------------
MaxProviders == 2      \* longest adapter list handed to webSearch
NumItems == 2          \* distinct native result records an adapter can return
MaxResultLen == 2      \* longest result list one adapter returns
MaxHandles == 2        \* configure() calls followed in the singleton model
MaxLogLines == 2       \* logger calls followed in the direct calls of debug.*

\* ------------------------------------------------------------------------
\* JavaScript values
\* ------------------------------------------------------------------------
NoValue == "<undefined>"
NoStatus == 0

Truthy(s) == s # NoValue /\ s # ""

Includes(s, sub) ==
  \E k \in 1..(Len(s) - Len(sub) + 1) : SubSeq(s, k, k + Len(sub) - 1) = sub

IsSpace(c) == c \in {" ", "\t", "\n"}

RECURSIVE TrimStart(_)
TrimStart(s) ==
  IF Len(s) = 0 THEN s
  ELSE IF IsSpace(SubSeq(s, 1, 1)) THEN TrimStart(SubSeq(s, 2, Len(s)))
  ELSE s

RECURSIVE TrimEnd(_)
TrimEnd(s) ==
  IF Len(s) = 0 THEN s
  ELSE IF IsSpace(SubSeq(s, Len(s), Len(s))) THEN TrimEnd(SubSeq(s, 1, Len(s) - 1))
  ELSE s

Trim(s) == TrimEnd(TrimStart(s))

RECURSIVE Join(_, _)
Join(parts, sep) ==
  IF Len(parts) = 0 THEN ""
  ELSE IF Len(parts) = 1 THEN parts[1]
  ELSE parts[1] \o sep \o Join(Tail(parts), sep)

Max(a, b) == IF a >= b THEN a ELSE b
Min(a, b) == IF a <= b THEN a ELSE b


\* ------------------------------------------------------------------------
\* utils/debug.ts
\* ------------------------------------------------------------------------
\* A DebugOptions value.  `defined = FALSE` is `undefined`; an absent flag is
\* FALSE (the default it is spread over); logger is "default" when the caller
\* gave none, "record" for a caller's logger that returns, "throws" for a
\* caller's logger that throws.
NoDebug ==
  [defined |-> FALSE, enabled |-> FALSE, logRequests |-> FALSE,
   logResponses |-> FALSE, logger |-> "default"]

defaultDebugOptions ==
  [enabled |-> FALSE, logRequests |-> FALSE, logResponses |-> FALSE,
   logger |-> "default"]

\* { ...defaultDebugOptions, ...options }
MergeDebug(options) ==
  IF options.defined
    THEN [enabled |-> options.enabled, logRequests |-> options.logRequests,
          logResponses |-> options.logResponses, logger |-> options.logger]
    ELSE defaultDebugOptions

\* Variant: the logger is called outside any try/catch.
CallLoggerUnguarded(lg, logger, message, data) ==
  [log |-> Append(lg, [sink |-> logger, message |-> message, data |-> data]),
   threw |-> logger = "throws"]

\* One logger invocation guarded by try/catch: the call is appended to the
\* logger's call list; `threw` tells whether an exception leaves the hook.
CallLogger(lg, logger, message, data) ==
  [log |-> Append(lg, [sink |-> logger, message |-> message, data |-> data]),
   threw |-> FALSE]

DebugLog(options, lg, message, data) ==
  LET opts == MergeDebug(options) IN
  IF opts.enabled THEN CallLogger(lg, opts.logger, message, data)
  ELSE [log |-> lg, threw |-> FALSE]

\* Variant: the logRequests flag is not consulted.
DebugLogRequestAlways(options, lg, message, data) ==
  LET opts == MergeDebug(options) IN
  IF opts.enabled
    THEN CallLogger(lg, opts.logger, "REQUEST: " \o message, data)
    ELSE [log |-> lg, threw |-> FALSE]

DebugLogRequest(options, lg, message, data) ==
  LET opts == MergeDebug(options) IN
  IF opts.enabled /\ opts.logRequests
    THEN CallLogger(lg, opts.logger, "REQUEST: " \o message, data)
    ELSE [log |-> lg, threw |-> FALSE]

DebugLogResponse(options, lg, message, data) ==
  LET opts == MergeDebug(options) IN
  IF opts.enabled /\ opts.logResponses
    THEN CallLogger(lg, opts.logger, "RESPONSE: " \o message, data)
    ELSE [log |-> lg, threw |-> FALSE]

\* ------------------------------------------------------------------------
\* index.ts: getTroubleshootingInfo
\* ------------------------------------------------------------------------
\* A thrown value: kind is "HttpError", "Error" or "NonError"; message is
\* error.message (String(value) for a non-Error); statusCode is NoStatus
\* unless the value is an HttpError; body is JSON.stringify of an HttpError's
\* parsedResponseBody, NoValue when it has none.
MkHttpError(message, statusCode, body) ==
  [kind |-> "HttpError", message |-> message, statusCode |-> statusCode,
   body |-> body]

MkError(kind, message, statusCode) ==
  [kind |-> kind, message |-> message, statusCode |-> statusCode,
   body |-> NoValue]

StatusSuggestion(statusCode) ==
  IF statusCode # NoStatus
    THEN IF statusCode = 401 \/ statusCode = 403
           THEN "This is likely an authentication issue. Check your API key and make sure it's valid and has the correct permissions."
         ELSE IF statusCode = 400
           THEN "This is likely due to invalid request parameters. Check your query and other search options."
         ELSE IF statusCode = 429
           THEN "You've exceeded the rate limit for this API. Try again later or reduce your request frequency."
         ELSE IF statusCode >= 500
           THEN "The search provider is experiencing server issues. Try again later."
         ELSE ""
    ELSE ""

ObjectHint(message) ==
  IF Includes(message, "[object Object]")
    THEN "\n\nThe error response contains complex data that wasn't properly formatted. "
         \o "Try enabling debug mode to see the full response details: { debug: { enabled: true, logResponses: true } }"
    ELSE ""

ProviderSuggestion(providerName, message, statusCode, suggestions) ==
  CASE providerName = "google" ->
         IF Includes(message, "API key")
           THEN "Make sure your Google API key is valid and has the Custom Search API enabled. Also check if your Search Engine ID (cx) is correct."
         ELSE IF Includes(message, "quota")
           THEN "You've exceeded your Google Custom Search API quota. Check your Google Cloud Console for quota information."
         ELSE suggestions
    [] providerName = "serpapi" ->
         IF Includes(message, "apiKey")
           THEN "Check that your SerpAPI key is valid. Verify that you have enough credits remaining in your SerpAPI account."
         ELSE suggestions
    [] providerName = "brave" ->
         IF Includes(message, "token")
           THEN "Ensure your Brave Search API token is valid. Check your subscription status in the Brave Developer Hub."
         ELSE suggestions
    [] providerName = "searxng" ->
         IF Includes(message, "not found") \/ statusCode = 404
           THEN "Check if your SearXNG instance URL is correct and that the server is running. Verify the format of your search URL."
         ELSE suggestions
    [] providerName = "duckduckgo" ->
         IF Includes(message, "vqd")
           THEN "Failed to extract the vqd parameter from DuckDuckGo. This may be due to temporary API changes or rate limiting. Try again later or consider using a different search type."
         ELSE IF statusCode = 429 \/ Includes(message, "rate")
           THEN "You may be making too many requests to DuckDuckGo. Try adding a delay between requests or reduce your request frequency."
         ELSE suggestions
    [] providerName = "perplexity" ->
         IF Includes(message, "api_key") \/ Includes(message, "apiKey")
           THEN "Check your Perplexity API key. Make sure it's valid and has the correct permissions for the Search API."
         ELSE IF statusCode = 429
           THEN "You have exceeded your Perplexity API quota or rate limits. Check your usage in your Perplexity account dashboard."
         ELSE IF statusCode = 400
           THEN "Check your search parameters for the Perplexity API. Ensure max_results is between 1-20, and date formats are correct (MM/DD/YYYY)."
         ELSE suggestions
    [] OTHER ->
         IF suggestions = ""
           THEN "Check your " \o providerName \o " API credentials and make sure your search request is valid."
           ELSE suggestions

getTroubleshootingInfo(providerName, message, statusCode) ==
  ProviderSuggestion(providerName, message, statusCode,
                     StatusSuggestion(statusCode) \o ObjectHint(message))


\* ------------------------------------------------------------------------
\* Values shared by the adapters
\* ------------------------------------------------------------------------
NoNumber == -999                       \* `undefined` for an optional number
NoList == [defined |-> FALSE, list |-> <<>>]
NoData == [none |-> TRUE]              \* a log call without a data argument
NoError == MkError("none", "", NoStatus)
NoRequest == [url |-> NoValue]
LoggerFailure == MkError("Error", "logger failure", NoStatus)

ItemIds == 1..NumItems

\* The native records a backend can answer with.  Record 2 has an
\* unparseable URL and no title; every other record is well formed.
NativeUrl(id) ==
  CASE id = 1 -> "https://a.com/x"
    [] id = 2 -> "not a url"
    [] OTHER -> "https://site" \o ToString(id) \o ".org"

NativeTitle(id) == IF id = 2 THEN NoValue ELSE "Title " \o ToString(id)

NativeDate(id) == IF id = 1 THEN "2024-01-01" ELSE NoValue

NativeUpdated(id) == IF id = 1 THEN NoValue ELSE "2024-02-02"

\* The result lists a backend can answer with: runs of consecutive records
\* (record NumItems is followed by record 1), of length at most MaxResultLen.
ItemRun(first, n) == [k \in 1..n |-> ((first + k - 2) % NumItems) + 1]

ItemLists ==
  {ItemRun(first, n) : first \in ItemIds, n \in 0..Min(MaxResultLen, NumItems)}

\* new URL(u).hostname: the text between "://" and the next "/"; a string
\* without a scheme separator, or with an empty scheme or host, does not parse.
SchemeEnd(u) ==
  IF Includes(u, "://")
    THEN CHOOSE k \in 1..(Len(u) - 2) :
           /\ SubSeq(u, k, k + 2) = "://"
           /\ \A j \in 1..(k - 1) : SubSeq(u, j, j + 2) # "://"
    ELSE 0

RECURSIVE UpToSlash(_)
UpToSlash(s) ==
  IF Len(s) = 0 \/ SubSeq(s, 1, 1) = "/" THEN ""
  ELSE SubSeq(s, 1, 1) \o UpToSlash(SubSeq(s, 2, Len(s)))

\* Variant: a string that does not parse is used as the host name.
ParseHostnameLenient(u) ==
  LET k == SchemeEnd(u)
      host == IF k = 0 THEN "" ELSE UpToSlash(SubSeq(u, k + 3, Len(u)))
  IN IF u = NoValue \/ k <= 1 \/ host = "" \/ Includes(SubSeq(u, 1, k), " ")
       THEN [ok |-> TRUE, hostname |-> u]
       ELSE [ok |-> TRUE, hostname |-> host]

ParseHostname(u) ==
  LET k == SchemeEnd(u)
      host == IF k = 0 THEN "" ELSE UpToSlash(SubSeq(u, k + 3, Len(u)))
  IN IF u = NoValue \/ k <= 1 \/ host = "" \/ Includes(SubSeq(u, 1, k), " ")
       THEN [ok |-> FALSE, hostname |-> NoValue]
       ELSE [ok |-> TRUE, hostname |-> host]

\* ------------------------------------------------------------------------
\* utils/http.ts: post / get (transport helper)
\* ------------------------------------------------------------------------
\* What one transport call settles with: a parsed 2xx body (`hasResults`
\* tells whether the body carries a result list) or a thrown value.
TransportOk(items) ==
  [ok |-> TRUE, hasResults |-> TRUE, items |-> items, error |-> NoError]

TransportNoList ==
  [ok |-> TRUE, hasResults |-> FALSE, items |-> <<>>, error |-> NoError]

TransportFail(e) ==
  [ok |-> FALSE, hasResults |-> FALSE, items |-> <<>>, error |-> e]

\* No request has settled.
NoTransport ==
  [ok |-> FALSE, hasResults |-> FALSE, items |-> <<>>, error |-> NoError]

\* HTTP requests one post()/get() call issues.
RequestsPerCall == 1


\* ------------------------------------------------------------------------
\* providers/perplexity.ts
\* ------------------------------------------------------------------------
PERPLEXITY_DEFAULT_BASE_URL == "https://api.perplexity.ai/search"

PerplexityConfig(apiKey) ==
  [apiKey |-> apiKey, baseUrl |-> NoValue, maxResults |-> NoNumber,
   maxTokens |-> NoNumber, maxTokensPerPage |-> NoNumber, country |-> NoValue,
   searchDomainFilter |-> NoList, searchRecencyFilter |-> NoValue,
   searchAfterDate |-> NoValue, searchBeforeDate |-> NoValue,
   searchLanguageFilter |-> NoList]

\* const { maxResults = 10 } = options
DefaultMaxResults(maxResults) == IF maxResults = NoNumber THEN 10 ELSE maxResults

\* Variant: the lower end of the range is not enforced.
PerplexityValidMaxResultsNoFloor(maxResults) == Min(20, maxResults)

PerplexityValidMaxResults(maxResults) == Max(1, Min(20, maxResults))

PerplexityRequestBody(config, options) ==
  [query |-> options.query,
   max_results |-> PerplexityValidMaxResults(DefaultMaxResults(options.maxResults)),
   max_tokens |-> config.maxTokens,
   search_domain_filter |-> config.searchDomainFilter,
   max_tokens_per_page |-> config.maxTokensPerPage,
   country |-> IF Truthy(options.region) THEN options.region
               ELSE IF Truthy(config.country) THEN config.country
               ELSE NoValue,
   search_recency_filter |->
     IF Truthy(config.searchRecencyFilter) THEN config.searchRecencyFilter
     ELSE NoValue,
   search_after_date |->
     IF Truthy(config.searchAfterDate) THEN config.searchAfterDate ELSE NoValue,
   search_before_date |->
     IF Truthy(config.searchBeforeDate) THEN config.searchBeforeDate ELSE NoValue,
   search_language_filter |->
     IF config.searchLanguageFilter.defined THEN config.searchLanguageFilter
     ELSE IF Truthy(options.language)
       THEN [defined |-> TRUE, list |-> <<options.language>>]
     ELSE NoList]

\* The synchronous part of search(): validation, request shaping, the request
\* log line and the call of post().  `early` tells that the promise is
\* already rejected (with `error`) and no request was issued.
PerplexitySearchStart(config, options, lg) ==
  IF ~Truthy(options.query)
    THEN [early |-> TRUE,
          error |-> MkError("Error", "Perplexity search requires a query.", NoStatus),
          request |-> NoRequest, log |-> lg]
    ELSE
      LET baseUrl == IF Truthy(config.baseUrl) THEN config.baseUrl
                     ELSE PERPLEXITY_DEFAULT_BASE_URL
          body == PerplexityRequestBody(config, options)
          lr == DebugLogRequest(options.debug, lg, "Perplexity Search request",
                                [url |-> baseUrl, body |-> body, apiKey |-> "***"])
      IN IF lr.threw
           THEN [early |-> TRUE, error |-> LoggerFailure,
                 request |-> NoRequest, log |-> lr.log]
           ELSE [early |-> FALSE, error |-> NoError,
                 request |-> [url |-> baseUrl, body |-> body,
                              authorization |-> "Bearer " \o config.apiKey],
                 log |-> lr.log]

PerplexityNative(id) ==
  [title |-> NativeTitle(id), url |-> NativeUrl(id),
   snippet |-> "snippet " \o ToString(id),
   date |-> NativeDate(id), last_updated |-> NativeUpdated(id)]

PerplexityMapResult(result) ==
  LET parsed == ParseHostname(result.url) IN
  [url |-> result.url,
   title |-> result.title,
   snippet |-> result.snippet,
   domain |-> IF parsed.ok THEN parsed.hostname ELSE NoValue,
   publishedDate |-> IF Truthy(result.last_updated) THEN result.last_updated
                     ELSE result.date,
   provider |-> "perplexity",
   raw |-> result]

PerplexityDiagnostic(error) ==
  IF error.kind = "HttpError"
    THEN IF error.statusCode = 401
           THEN "Invalid API key. Check your Perplexity API key."
         ELSE IF error.statusCode = 403
           THEN "Access denied. Your Perplexity API key may have insufficient permissions or has expired."
         ELSE IF error.statusCode = 429
           THEN "Rate limit exceeded. You have reached your Perplexity API quota or sent too many requests."
         ELSE IF error.statusCode = 400
           THEN "Bad request. Check your search parameters."
                \o (IF Includes(error.message, "max_results")
                      THEN " Invalid max_results value. Must be between 1 and 20."
                    ELSE IF Includes(error.message, "search_recency_filter")
                      THEN " Invalid search_recency_filter. Use \"day\", \"week\", \"month\", or \"year\"."
                    ELSE IF Includes(error.message, "search_after_date")
                            \/ Includes(error.message, "search_before_date")
                      THEN " Invalid date format. Use MM/DD/YYYY format."
                    ELSE "")
         ELSE IF error.statusCode >= 500
           THEN "Perplexity server error. The service might be experiencing issues. Try again later."
         ELSE ""
  ELSE IF error.kind = "Error"
    THEN IF Includes(error.message, "api_key") \/ Includes(error.message, "apiKey")
           THEN "Authentication issue. Check your Perplexity API key."
         ELSE IF Includes(error.message, "timeout")
           THEN "The request timed out. Try increasing the timeout value or simplifying your query."
         ELSE ""
  ELSE ""

\* Variant: a thrown value that is not an Error is dropped from the message.
PerplexityCatchDropsNonError(options, error, lg) ==
  LET diagnosticInfo == PerplexityDiagnostic(error)
      base == IF error.kind = "NonError" THEN "Perplexity search failed"
              ELSE "Perplexity search failed: " \o error.message
      errorMessage ==
        IF diagnosticInfo # ""
          THEN base \o "\n\nDiagnostic information: " \o diagnosticInfo
               \o "\n\nPerplexity API docs: https://docs.perplexity.ai/api-reference"
          ELSE base
      ld == DebugLog(options.debug, lg, "Perplexity Search error",
                     [error |-> error.message, statusCode |-> error.statusCode,
                      diagnosticInfo |-> diagnosticInfo])
  IN [ok |-> FALSE, results |-> <<>>, log |-> ld.log,
      error |-> IF ld.threw THEN LoggerFailure
                ELSE MkError("Error", errorMessage, NoStatus)]

\* The catch block of search(): the thrown value re-wrapped as a plain Error.
PerplexityCatch(options, error, lg) ==
  LET diagnosticInfo == PerplexityDiagnostic(error)
      base == "Perplexity search failed: " \o error.message
      errorMessage ==
        IF diagnosticInfo # ""
          THEN base \o "\n\nDiagnostic information: " \o diagnosticInfo
               \o "\n\nPerplexity API docs: https://docs.perplexity.ai/api-reference"
          ELSE base
      ld == DebugLog(options.debug, lg, "Perplexity Search error",
                     [error |-> error.message, statusCode |-> error.statusCode,
                      diagnosticInfo |-> diagnosticInfo])
  IN [ok |-> FALSE, results |-> <<>>, log |-> ld.log,
      error |-> IF ld.threw THEN LoggerFailure
                ELSE MkError("Error", errorMessage, NoStatus)]

\* Variant: the guard for an absent result list is missing, so reading the
\* length of the absent list throws inside the try block.
PerplexitySearchFinishNoListCheck(config, options, t, lg) ==
  IF ~t.ok THEN PerplexityCatch(options, t.error, lg)
  ELSE
    LET lr == DebugLogResponse(options.debug, lg, "Perplexity Search raw response",
                               [status |-> "success",
                                itemCount |-> IF t.hasResults THEN Len(t.items) ELSE 0,
                                query |-> options.query])
    IN IF ~t.hasResults
         THEN PerplexityCatch(options,
                MkError("Error",
                        "Cannot read properties of undefined (reading 'length')",
                        NoStatus),
                lr.log)
       ELSE IF Len(t.items) = 0
         THEN [ok |-> TRUE, results |-> <<>>,
               log |-> DebugLog(options.debug, lr.log,
                                "Perplexity Search returned no results", NoData).log,
               error |-> NoError]
       ELSE [ok |-> TRUE,
             results |-> [k \in 1..Len(t.items) |->
                            PerplexityMapResult(PerplexityNative(t.items[k]))],
             log |-> lr.log, error |-> NoError]

\* The continuation of search() once post() has settled with `t`.
PerplexitySearchFinish(config, options, t, lg) ==
  IF ~t.ok THEN PerplexityCatch(options, t.error, lg)
  ELSE
    LET lr == DebugLogResponse(options.debug, lg, "Perplexity Search raw response",
                               [status |-> "success",
                                itemCount |-> IF t.hasResults THEN Len(t.items) ELSE 0,
                                query |-> options.query])
    IN IF lr.threw THEN PerplexityCatch(options, LoggerFailure, lr.log)
       ELSE IF ~t.hasResults \/ Len(t.items) = 0
         THEN LET ln == DebugLog(options.debug, lr.log,
                                 "Perplexity Search returned no results", NoData)
              IN IF ln.threw THEN PerplexityCatch(options, LoggerFailure, ln.log)
                 ELSE [ok |-> TRUE, results |-> <<>>, log |-> ln.log,
                       error |-> NoError]
       ELSE [ok |-> TRUE,
             results |-> [k \in 1..Len(t.items) |->
                            PerplexityMapResult(PerplexityNative(t.items[k]))],
             log |-> lr.log, error |-> NoError]

\* Variant: only an absent API key is refused, the empty string is accepted.
createPerplexityProviderLax(config) ==
  IF config.apiKey = NoValue
    THEN [threw |-> TRUE, message |-> "Perplexity requires an API key",
          handle |-> [name |-> NoValue, kind |-> "none", config |-> config]]
    ELSE [threw |-> FALSE, message |-> "",
          handle |-> [name |-> "perplexity", kind |-> "perplexity",
                      config |-> config]]

\* createPerplexityProvider(config): throws without an API key.
createPerplexityProvider(config) ==
  IF ~Truthy(config.apiKey)
    THEN [threw |-> TRUE, message |-> "Perplexity requires an API key",
          handle |-> [name |-> NoValue, kind |-> "none", config |-> config]]
    ELSE [threw |-> FALSE, message |-> "",
          handle |-> [name |-> "perplexity", kind |-> "perplexity",
                      config |-> config]]


\* ------------------------------------------------------------------------
\* providers/parallel.ts
\* ------------------------------------------------------------------------
PARALLEL_DEFAULT_BASE_URL == "https://api.parallel.ai/v1beta/search"
PARALLEL_BETA_HEADER == "search-extract-2025-10-10"

ParallelConfig(apiKey, maxResults) ==
  [apiKey |-> apiKey, baseUrl |-> NoValue, mode |-> NoValue,
   maxResults |-> maxResults, includeDomains |-> NoList,
   excludeDomains |-> NoList, afterDate |-> NoValue, beforeDate |-> NoValue,
   maxCharsPerResult |-> NoNumber, excerptCount |-> NoNumber,
   fetchStrategy |-> NoValue]

\* a || b for optional numbers: 0 and undefined are falsy
NumberOr(a, b) == IF a # NoNumber /\ a # 0 THEN a ELSE b

\* maxResults || config.maxResults || 10, maxResults already defaulted to 10
ParallelEffectiveMaxResults(config, options) ==
  NumberOr(DefaultMaxResults(options.maxResults), NumberOr(config.maxResults, 10))

\* list?.length
HasElements(l) == l.defined /\ Len(l.list) > 0

ParallelRequestBody(config, options) ==
  [objective |-> options.query,
   mode |-> IF Truthy(config.mode) THEN config.mode ELSE NoValue,
   max_results |-> ParallelEffectiveMaxResults(config, options),
   excerpts |->
     [defined |-> config.maxCharsPerResult # NoNumber \/ config.excerptCount # NoNumber,
      max_chars_per_result |-> config.maxCharsPerResult,
      count |-> config.excerptCount],
   source_policy |->
     [defined |-> HasElements(config.includeDomains) \/ HasElements(config.excludeDomains)
                    \/ Truthy(config.afterDate) \/ Truthy(config.beforeDate),
      include_domains |-> IF HasElements(config.includeDomains)
                            THEN config.includeDomains ELSE NoList,
      exclude_domains |-> IF HasElements(config.excludeDomains)
                            THEN config.excludeDomains ELSE NoList,
      after_date |-> IF Truthy(config.afterDate) THEN config.afterDate ELSE NoValue,
      before_date |-> IF Truthy(config.beforeDate) THEN config.beforeDate ELSE NoValue],
   fetch_policy |-> IF Truthy(config.fetchStrategy) THEN config.fetchStrategy
                    ELSE NoValue]

ParallelSearchStart(config, options, lg) ==
  IF ~Truthy(options.query) \/ Trim(options.query) = ""
    THEN [early |-> TRUE,
          error |-> MkError("Error", "Parallel search requires a query.", NoStatus),
          request |-> NoRequest, log |-> lg]
    ELSE
      LET baseUrl == IF Truthy(config.baseUrl) THEN config.baseUrl
                     ELSE PARALLEL_DEFAULT_BASE_URL
          body == ParallelRequestBody(config, options)
          lr == DebugLogRequest(options.debug, lg, "Parallel Search request",
                                [url |-> baseUrl, body |-> body, apiKey |-> "***"])
      IN IF lr.threw
           THEN [early |-> TRUE, error |-> LoggerFailure,
                 request |-> NoRequest, log |-> lr.log]
           ELSE [early |-> FALSE, error |-> NoError,
                 request |-> [url |-> baseUrl, body |-> body,
                              xApiKey |-> config.apiKey,
                              parallelBeta |-> PARALLEL_BETA_HEADER],
                 log |-> lr.log]

\* Native record 1 carries two excerpts, the others none.
ParallelNative(id) ==
  [url |-> NativeUrl(id), title |-> NativeTitle(id),
   publish_date |-> NativeDate(id),
   excerpts |-> IF id = 1 THEN [defined |-> TRUE, list |-> <<"first", "second">>]
                ELSE NoList]

ParallelMapResult(result) ==
  LET parsed == ParseHostname(result.url)
      excerpts == IF result.excerpts.defined THEN result.excerpts.list ELSE <<>>
  IN [url |-> result.url,
      title |-> IF Truthy(result.title) THEN result.title ELSE "No title available",
      snippet |-> IF Len(excerpts) > 0 THEN excerpts[1] ELSE NoValue,
      content |-> IF Len(excerpts) > 0 THEN Join(excerpts, "\n\n") ELSE NoValue,
      domain |-> IF parsed.ok THEN parsed.hostname ELSE NoValue,
      publishedDate |-> result.publish_date,
      provider |-> "parallel",
      raw |-> result]

ParallelDiagnostic(error) ==
  IF error.kind = "HttpError"
    THEN IF error.statusCode = 401
           THEN "Invalid API key. Check your Parallel API key."
         ELSE IF error.statusCode = 403
           THEN "Access denied. Your Parallel API key may have insufficient permissions or has expired."
         ELSE IF error.statusCode = 429
           THEN "Rate limit exceeded. You have reached your Parallel API quota or sent too many requests."
         ELSE IF error.statusCode = 400
           THEN "Bad request. Check your search parameters."
                \o (IF Includes(error.message, "objective")
                       \/ Includes(error.message, "search_queries")
                      THEN " At least one of objective or search_queries must be provided."
                    ELSE IF Includes(error.message, "max_results")
                      THEN " Invalid max_results value."
                    ELSE IF Includes(error.message, "source_policy")
                      THEN " Invalid source_policy configuration. Check domain and date formats."
                    ELSE "")
         ELSE IF error.statusCode = 422
           THEN "Validation error. The request parameters failed validation checks."
                \o (IF Includes(error.message, "date")
                      THEN " Invalid date format. Use RFC 3339 date format (YYYY-MM-DD) for afterDate/beforeDate."
                    ELSE IF Includes(error.message, "domain")
                      THEN " Invalid domain format in includeDomains or excludeDomains."
                    ELSE IF Includes(error.message, "mode")
                      THEN " Invalid mode value. Use \"one-shot\" or \"agentic\"."
                    ELSE IF Includes(error.message, "strategy")
                      THEN " Invalid fetch strategy. Use \"cached\" or \"live\"."
                    ELSE "")
         ELSE IF error.statusCode >= 500
           THEN "Parallel server error. The service might be experiencing issues. Try again later."
         ELSE ""
  ELSE IF error.kind = "Error"
    THEN IF Includes(error.message, "api_key") \/ Includes(error.message, "apiKey")
           THEN "Authentication issue. Check your Parallel API key."
         ELSE IF Includes(error.message, "timeout")
           THEN "The request timed out. Try increasing the timeout value or simplifying your query."
         ELSE ""
  ELSE ""

\* Variant: the caught value is thrown again as it is.
ParallelCatchRethrows(options, error, lg) ==
  [ok |-> FALSE, results |-> <<>>, log |-> lg, error |-> error]

ParallelCatch(options, error, lg) ==
  LET diagnosticInfo == ParallelDiagnostic(error)
      base == "Parallel search failed: " \o error.message
      errorMessage ==
        IF diagnosticInfo # ""
          THEN base \o "\n\nDiagnostic information: " \o diagnosticInfo
               \o "\n\nParallel API docs: https://api.parallel.ai"
          ELSE base
      ld == DebugLog(options.debug, lg, "Parallel Search error",
                     [error |-> error.message, statusCode |-> error.statusCode,
                      diagnosticInfo |-> diagnosticInfo])
  IN [ok |-> FALSE, results |-> <<>>, log |-> ld.log,
      error |-> IF ld.threw THEN LoggerFailure
                ELSE MkError("Error", errorMessage, NoStatus)]

\* The continuation of search() once post() has settled with t (a response
\* without warnings).
ParallelSearchFinish(config, options, t, lg) ==
  IF ~t.ok THEN ParallelCatch(options, t.error, lg)
  ELSE
    LET lr == DebugLogResponse(options.debug, lg, "Parallel Search raw response",
                               [status |-> "success",
                                itemCount |-> IF t.hasResults THEN Len(t.items) ELSE 0])
    IN IF lr.threw THEN ParallelCatch(options, LoggerFailure, lr.log)
       ELSE IF ~t.hasResults \/ Len(t.items) = 0
         THEN LET ln == DebugLog(options.debug, lr.log,
                                 "Parallel Search returned no results", NoData)
              IN IF ln.threw THEN ParallelCatch(options, LoggerFailure, ln.log)
                 ELSE [ok |-> TRUE, results |-> <<>>, log |-> ln.log,
                       error |-> NoError]
       ELSE [ok |-> TRUE,
             results |-> [k \in 1..Len(t.items) |->
                            ParallelMapResult(ParallelNative(t.items[k]))],
             log |-> lr.log, error |-> NoError]

createParallelProvider(config) ==
  IF ~Truthy(config.apiKey)
    THEN [threw |-> TRUE, message |-> "Parallel requires an API key",
          handle |-> [name |-> NoValue, kind |-> "none", config |-> config]]
    ELSE [threw |-> FALSE, message |-> "",
          handle |-> [name |-> "parallel", kind |-> "parallel", config |-> config]]

\* ------------------------------------------------------------------------
\* providers/arxiv.ts
\* ------------------------------------------------------------------------
ARXIV_DEFAULT_BASE_URL == "http://export.arxiv.org/api/query"

ArxivConfig(baseUrl) ==
  [apiKey |-> NoValue, baseUrl |-> baseUrl, sortBy |-> NoValue,
   sortOrder |-> NoValue]

\* URLSearchParams serialisation of one character: a space becomes "+", the
\* reserved characters used here are percent-encoded, letters, digits and
\* "*-._" stay.
EncodeChar(c) ==
  CASE c = " " -> "+"
    [] c = ":" -> "%3A"
    [] c = "/" -> "%2F"
    [] c = "," -> "%2C"
    [] c = "\n" -> "%0A"
    [] OTHER -> c

RECURSIVE UrlEncode(_)
UrlEncode(s) ==
  IF Len(s) = 0 THEN ""
  ELSE EncodeChar(SubSeq(s, 1, 1)) \o UrlEncode(SubSeq(s, 2, Len(s)))

StringOr(a, b) == IF a = NoValue THEN b ELSE a

ArxivUrl(config, options) ==
  LET baseUrl == IF Truthy(config.baseUrl) THEN config.baseUrl
                 ELSE ARXIV_DEFAULT_BASE_URL
      start == IF options.start = NoNumber THEN 0 ELSE options.start
      params ==
        (IF Truthy(options.query)
           THEN <<"search_query=" \o UrlEncode(options.query)>> ELSE <<>>)
        \o (IF Truthy(options.idList)
              THEN <<"id_list=" \o UrlEncode(options.idList)>> ELSE <<>>)
        \o <<"start=" \o ToString(start),
             "max_results=" \o ToString(DefaultMaxResults(options.maxResults)),
             "sortBy=" \o UrlEncode(StringOr(options.sortBy, "relevance")),
             "sortOrder=" \o UrlEncode(StringOr(options.sortOrder, "descending"))>>
  IN baseUrl \o "?" \o Join(params, "&")

ArxivSearchStart(config, options, lg) ==
  IF ~Truthy(options.query) /\ ~Truthy(options.idList)
    THEN [early |-> TRUE,
          error |-> MkError("Error",
                      "Arxiv search requires either a \"query\" or an \"idList\".",
                      NoStatus),
          request |-> NoRequest, log |-> lg]
    ELSE
      LET url == ArxivUrl(config, options)
          lr == DebugLogRequest(options.debug, lg, "Arxiv Search request",
                                [url |-> url])
      IN IF lr.threw
           THEN [early |-> TRUE, error |-> LoggerFailure,
                 request |-> NoRequest, log |-> lr.log]
           ELSE [early |-> FALSE, error |-> NoError,
                 request |-> [url |-> url], log |-> lr.log]

\* The entries of a parsed feed.  Entry 1 has an alternate and a pdf link,
\* entry 2 has no title and no link, the others an alternate link only.
ArxivAbsUrl(id) == "http://arxiv.org/abs/2305.0000" \o ToString(id) \o "v1"

ArxivPdfUrl(id) == "http://arxiv.org/pdf/2305.0000" \o ToString(id) \o "v1"

ArxivNative(id) ==
  [id |-> ArxivAbsUrl(id),
   updated |-> "2023-05-02T00:00:00Z",
   published |-> IF id = 1 THEN "2023-05-01T00:00:00Z" ELSE NoValue,
   title |-> IF id = 2 THEN NoValue ELSE "Paper\n  " \o ToString(id),
   summary |-> "Abstract\nof paper " \o ToString(id),
   author |-> <<"John Doe", "">>,
   link |-> IF id = 2 THEN <<>>
            ELSE <<[href |-> ArxivAbsUrl(id), rel |-> "alternate",
                    type |-> "text/html", title |-> NoValue]>>
                 \o (IF id = 1
                       THEN <<[href |-> ArxivPdfUrl(id), rel |-> "related",
                               type |-> "application/pdf", title |-> "pdf"]>>
                       ELSE <<>>),
   category |-> <<"cs.AI">>]

\* s.replace(/\n\s*/g, ' ')
RECURSIVE ReplaceNewlineRuns(_)
ReplaceNewlineRuns(s) ==
  IF Len(s) = 0 THEN ""
  ELSE IF SubSeq(s, 1, 1) = "\n"
    THEN " " \o ReplaceNewlineRuns(TrimStart(SubSeq(s, 2, Len(s))))
  ELSE SubSeq(s, 1, 1) \o ReplaceNewlineRuns(SubSeq(s, 2, Len(s)))

\* s.replace(a, b): the first occurrence only
ReplaceFirst(s, a, b) ==
  IF Includes(s, a)
    THEN LET k == CHOOSE j \in 1..(Len(s) - Len(a) + 1) :
                    /\ SubSeq(s, j, j + Len(a) - 1) = a
                    /\ \A h \in 1..(j - 1) : SubSeq(s, h, h + Len(a) - 1) # a
         IN SubSeq(s, 1, k - 1) \o b \o SubSeq(s, k + Len(a), Len(s))
    ELSE s

IsPdfLink(l) == l.title = "pdf"
IsAlternateLink(l) == l.rel = "alternate" /\ l.type = "text/html"

\* links.find(l => l.title === 'pdf'): index of the first such link, 0 when none
FirstPdfLink(links) ==
  IF \E k \in 1..Len(links) : IsPdfLink(links[k])
    THEN CHOOSE k \in 1..Len(links) :
           IsPdfLink(links[k]) /\ \A j \in 1..(k - 1) : ~IsPdfLink(links[j])
    ELSE 0

\* links.find(l => l.rel === 'alternate' && l.type === 'text/html')
FirstAlternateLink(links) ==
  IF \E k \in 1..Len(links) : IsAlternateLink(links[k])
    THEN CHOOSE k \in 1..Len(links) :
           IsAlternateLink(links[k])
             /\ \A j \in 1..(k - 1) : ~IsAlternateLink(links[j])
    ELSE 0

ArxivPdfLink(entry) ==
  LET pdf == FirstPdfLink(entry.link)
      alt == FirstAlternateLink(entry.link)
  IN IF pdf # 0 THEN entry.link[pdf].href
     ELSE IF alt # 0 THEN ReplaceFirst(entry.link[alt].href, "/abs/", "/pdf/")
     ELSE ""

\* .filter(Boolean)
RECURSIVE FilterTruthy(_)
FilterTruthy(l) ==
  IF Len(l) = 0 THEN <<>>
  ELSE IF Truthy(l[1]) THEN <<l[1]>> \o FilterTruthy(Tail(l))
  ELSE FilterTruthy(Tail(l))

\* entry.title.replace throws a TypeError when the entry has no title.
ArxivEntryThrows(entry) == entry.title = NoValue \/ entry.summary = NoValue

ArxivMapResult(entry) ==
  LET pdfLink == ArxivPdfLink(entry) IN
  [url |-> IF Truthy(pdfLink) THEN pdfLink ELSE entry.id,
   title |-> Trim(ReplaceNewlineRuns(entry.title)),
   snippet |-> Trim(ReplaceNewlineRuns(entry.summary)),
   publishedDate |-> IF Truthy(entry.published) THEN entry.published
                     ELSE entry.updated,
   provider |-> "arxiv",
   raw |-> entry,
   authors |-> FilterTruthy(entry.author),
   categories |-> FilterTruthy(entry.category)]

ArxivCatch(options, error, lg) ==
  LET errorMessage ==
        IF error.kind = "HttpError"
          THEN "Arxiv API error: " \o ToString(error.statusCode) \o " - "
               \o error.message
               \o (IF Truthy(error.body) THEN "\nResponse: " \o error.body ELSE "")
          ELSE "Arxiv search failed: " \o error.message
      ld == DebugLog(options.debug, lg, "Arxiv Search error",
                     [error |-> error.message, statusCode |-> error.statusCode])
  IN [ok |-> FALSE, results |-> <<>>, log |-> ld.log,
      error |-> IF ld.threw THEN LoggerFailure
                ELSE MkError("Error", errorMessage, NoStatus)]

TitleTypeError ==
  MkError("Error", "Cannot read properties of undefined (reading 'replace')",
          NoStatus)

\* The continuation of search() once get() has settled with t; t.hasResults
\* tells whether the parsed XML has a feed element, t.items are its entries.
ArxivSearchFinish(config, options, t, lg) ==
  IF ~t.ok THEN ArxivCatch(options, t.error, lg)
  ELSE
    LET l1 == DebugLog(options.debug, lg, "Arxiv raw XML response received",
                       [length |-> "responseXmlText.length"])
        l2 == DebugLog(options.debug, l1.log, "Arxiv XML parsed successfully", NoData)
    IN IF l1.threw THEN ArxivCatch(options, LoggerFailure, l1.log)
       ELSE IF l2.threw THEN ArxivCatch(options, LoggerFailure, l2.log)
       ELSE IF ~t.hasResults
         THEN LET l3 == DebugLog(options.debug, l2.log,
                                 "Arxiv parsed data is empty or malformed", NoData)
              IN IF l3.threw THEN ArxivCatch(options, LoggerFailure, l3.log)
                 ELSE [ok |-> TRUE, results |-> <<>>, log |-> l3.log,
                       error |-> NoError]
       ELSE IF Len(t.items) = 0
         THEN LET l4 == DebugLog(options.debug, l2.log,
                                 "No entries found in Arxiv response", NoData)
              IN IF l4.threw THEN ArxivCatch(options, LoggerFailure, l4.log)
                 ELSE [ok |-> TRUE, results |-> <<>>, log |-> l4.log,
                       error |-> NoError]
       ELSE IF \E k \in 1..Len(t.items) : ArxivEntryThrows(ArxivNative(t.items[k]))
         THEN ArxivCatch(options, TitleTypeError, l2.log)
       ELSE LET results == [k \in 1..Len(t.items) |->
                              ArxivMapResult(ArxivNative(t.items[k]))]
                l5 == DebugLogResponse(options.debug, l2.log,
                                       "Arxiv Search successful",
                                       [status |-> "success",
                                        itemCount |-> Len(results)])
            IN IF l5.threw THEN ArxivCatch(options, LoggerFailure, l5.log)
               ELSE [ok |-> TRUE, results |-> results, log |-> l5.log,
                     error |-> NoError]

\* createArxivProvider(config): never throws; apiKey defaults to ''.
createArxivProvider(config) ==
  [threw |-> FALSE, message |-> "",
   handle |-> [name |-> "arxiv", kind |-> "arxiv",
               config |-> [config EXCEPT
                             !.apiKey = IF Truthy(@) THEN @ ELSE ""]]]

\* ------------------------------------------------------------------------
\* index.ts: webSearch
\* ------------------------------------------------------------------------
VARIABLES
  opts,        \* the WebSearchOptions of the call
  errorPool,   \* the values an adapter or the transport can throw
  pc,          \* "start", "map", "await", "resolved" or "rejected"
  mapIdx,      \* next adapter of provider.map
  tasks,       \* per adapter: the state of its search and of its map callback
  order,       \* adapters in the order in which their map callbacks completed
  result,      \* what the promise returned by webSearch settled with
  log,         \* the calls received by the debug logger
  singletons,  \* the module-level provider objects (perplexity, parallel, arxiv)
  handles,     \* the handles returned by configure(), oldest first
  call,        \* the last direct call of configure() or search()
  mcp          \* the MCP bridge: the argument of asMcp and the CLI process

\* The bridge before asMcp is called: no environment, no CLI process.
NoMcp ==
  [state |-> "idle", providers |-> <<>>, env |-> NoValue, hydrated |-> <<>>,
   exitCode |-> NoNumber, error |-> ""]

\* A handle whose search() is supplied by the caller (a test double or a
\* third-party adapter): its promise settles with whatever the caller decides.
MockHandle(name) ==
  [name |-> name, kind |-> "mock", config |-> PerplexityConfig("test-key")]

ProviderList(o) == o.provider.list
NumProviders(o) == Len(o.provider.list)

\* provider.map(p => p.name)
ProviderNames(o) == [k \in 1..NumProviders(o) |-> o.provider.list[k].name]

\* Variant: only the first adapter is looked at.
hasArxivFirstOnly(o) ==
  NumProviders(o) > 0 /\ o.provider.list[1].name = "arxiv"

hasArxivProvider(o) ==
  \E k \in 1..NumProviders(o) : o.provider.list[k].name = "arxiv"

ProviderError == "At least one search provider is required"
QueryError == "A search query or ID list (for Arxiv) is required"

\* Variant: the query check comes first.
ValidateQueryFirst(o) ==
  IF ~Truthy(o.query)
       /\ ~(\E k \in 1..NumProviders(o) : o.provider.list[k].name = "arxiv"
            /\ Truthy(o.idList))
    THEN QueryError
  ELSE IF ~o.provider.defined \/ NumProviders(o) = 0 THEN ProviderError
  ELSE ""

\* The two precondition checks; "" when both pass.
Validate(o) ==
  IF ~o.provider.defined \/ NumProviders(o) = 0 THEN ProviderError
  ELSE IF ~Truthy(o.query) /\ ~(hasArxivProvider(o) /\ Truthy(o.idList))
    THEN QueryError
  ELSE ""

\* { ...searchOptions, debug: debugOptions }
SearchOptions(o) ==
  [query |-> o.query, idList |-> o.idList, maxResults |-> o.maxResults,
   region |-> o.region, language |-> o.language, start |-> NoNumber,
   sortBy |-> NoValue, sortOrder |-> NoValue, debug |-> o.debug]

IdleTask ==
  [state |-> "idle", calls |-> 0, requests |-> 0, transport |-> NoTransport,
   outcome |-> [ok |-> FALSE, results |-> <<>>, error |-> NoError],
   value |-> [provider |-> NoValue, results |-> <<>>, failed |-> FALSE,
              message |-> ""]]

\* The synchronous part of p.search(options) for the adapter p.
SearchStart(p, options, lg) ==
  IF p.kind = "perplexity" THEN PerplexitySearchStart(p.config, options, lg)
  ELSE IF p.kind = "parallel" THEN ParallelSearchStart(p.config, options, lg)
  ELSE IF p.kind = "arxiv" THEN ArxivSearchStart(p.config, options, lg)
  ELSE [early |-> FALSE, error |-> NoError, request |-> NoRequest, log |-> lg]

MockResult(name, id) ==
  [url |-> NativeUrl(id), title |-> "Title " \o ToString(id), provider |-> name]

\* What p.search(options) settles with once its pending operation settled
\* with t.
SearchFinish(p, options, t, lg) ==
  IF p.kind = "perplexity" THEN PerplexitySearchFinish(p.config, options, t, lg)
  ELSE IF p.kind = "parallel" THEN ParallelSearchFinish(p.config, options, t, lg)
  ELSE IF p.kind = "arxiv" THEN ArxivSearchFinish(p.config, options, t, lg)
  ELSE IF t.ok
    THEN [ok |-> TRUE,
          results |-> [k \in 1..Len(t.items) |-> MockResult(p.name, t.items[k])],
          log |-> lg, error |-> NoError]
    ELSE [ok |-> FALSE, results |-> <<>>, log |-> lg, error |-> t.error]

\* What the pending operation of adapter p can settle with.
EnvOutcomes(p) ==
  {TransportOk(l) : l \in ItemLists}
    \cup {TransportFail(e) : e \in errorPool}
    \cup (IF p.kind # "mock" THEN {TransportNoList} ELSE {})

\* Variant: the troubleshooting text takes the place of the adapter's message.
DetailedErrorMessageReplaced(name, error) ==
  LET statusCode == IF error.kind = "HttpError" THEN error.statusCode ELSE NoStatus
      troubleshooting == getTroubleshootingInfo(name, error.message, statusCode)
      head == "Search with provider '" \o name \o "' failed: "
  IN IF troubleshooting # "" /\ Trim(troubleshooting) # ""
       THEN head \o troubleshooting
       ELSE head \o error.message

\* The catch block of the map callback (lines 121-160).
DetailedErrorMessage(name, error) ==
  LET statusCode == IF error.kind = "HttpError" THEN error.statusCode ELSE NoStatus
      troubleshooting == getTroubleshootingInfo(name, error.message, statusCode)
      head == "Search with provider '" \o name \o "' failed: " \o error.message
  IN IF troubleshooting # "" /\ Trim(troubleshooting) # ""
       THEN head \o "\n\nTroubleshooting: " \o troubleshooting
       ELSE head

\* The map callback after `await p.search(...)` settled with `out`: the
\* value its promise resolves with; `rejected` when the callback itself throws.
\* Variant: a failure is recorded as a success without results.
CallbackValueSwallows(o, p, out) ==
  [rejected |-> FALSE, log |-> out.log,
   value |-> [provider |-> p.name, results |-> out.results,
              failed |-> FALSE, message |-> ""]]

CallbackValue(o, p, out) ==
  IF out.ok
    THEN LET lr == DebugLogResponse(o.debug, out.log,
                     "Received " \o ToString(Len(out.results)) \o " results from " \o p.name,
                     NoData)
         IN IF ~lr.threw
              THEN [rejected |-> FALSE, log |-> lr.log,
                    value |-> [provider |-> p.name, results |-> out.results,
                               failed |-> FALSE, message |-> ""]]
              ELSE LET le == DebugLog(o.debug, lr.log,
                                      "Search error with provider " \o p.name,
                                      [error |-> LoggerFailure.message,
                                       provider |-> p.name, query |-> o.query])
                   IN [rejected |-> le.threw, log |-> le.log,
                       value |-> [provider |-> p.name, results |-> <<>>,
                                  failed |-> TRUE,
                                  message |->
                                    DetailedErrorMessage(p.name, LoggerFailure)]]
    ELSE LET le == DebugLog(o.debug, out.log,
                            "Search error with provider " \o p.name,
                            [error |-> out.error.message, provider |-> p.name,
                             query |-> o.query])
         IN [rejected |-> le.threw, log |-> le.log,
             value |-> [provider |-> p.name, results |-> <<>>, failed |-> TRUE,
                        message |-> DetailedErrorMessage(p.name, out.error)]]

\* Variant: the values in the order in which the promises settled.
PromiseAllByCompletion(values, completion) ==
  [k \in 1..Len(values) |-> values[completion[k]]]

\* Promise.all(searchPromises): the values in the order of the promises.
PromiseAll(values, completion) == values

\* The for loop of lines 170-177 over searchResults[k..].
RECURSIVE CollectLoop(_, _, _, _)
CollectLoop(o, searchResults, k, acc) ==
  IF k > Len(searchResults) \/ acc.threw THEN acc
  ELSE LET r == searchResults[k] IN
       IF r.failed
         THEN LET ld == DebugLog(o.debug, acc.log,
                                 "Provider " \o r.provider \o " failed",
                                 [error |-> r.message])
              IN CollectLoop(o, searchResults, k + 1,
                   [allResults |-> acc.allResults,
                    errors |-> Append(acc.errors, r.message),
                    log |-> ld.log, threw |-> ld.threw])
         ELSE CollectLoop(o, searchResults, k + 1,
                [allResults |-> acc.allResults \o r.results,
                 errors |-> acc.errors, log |-> acc.log, threw |-> FALSE])

\* Variant: only the first failure is reported.
JoinFirstOnly(errors) == IF Len(errors) = 0 THEN "" ELSE errors[1]

\* errors.join('\n\n')
JoinErrors(errors) == Join(errors, "\n\n")

\* Variant: any failure makes the call fail.
ShouldThrowOnAnyError(allResults, errors) == Len(errors) > 0

\* if (allResults.length === 0 && errors.length > 0)
ShouldThrow(allResults, errors) == Len(allResults) = 0 /\ Len(errors) > 0

\* Variant: the failure texts are thrown without the head line.
AggregateErrorBare(o, errors) == Join(errors, "\n\n")

AggregateError(o, errors) ==
  "All " \o ToString(NumProviders(o)) \o " provider(s) failed:\n\n"
    \o JoinErrors(errors)


engineVars == <<opts, errorPool, pc, mapIdx, tasks, order, result>>
adapterVars == <<singletons, handles, call>>

Reject(message) ==
  /\ pc' = "rejected"
  /\ result' = [results |-> <<>>, error |-> message]

\* webSearch(options) up to the start of provider.map (lines 91-110).
WebSearchCall ==
  /\ pc = "start"
  /\ LET v == Validate(opts) IN
     IF v # ""
       THEN /\ Reject(v)
            /\ UNCHANGED <<mapIdx, log>>
       ELSE LET ld == DebugLog(opts.debug, log,
                        "Performing search with " \o ToString(NumProviders(opts))
                          \o " provider(s): " \o Join(ProviderNames(opts), ", "),
                        [query |-> opts.query, maxResults |-> opts.maxResults,
                         providers |-> ProviderNames(opts)])
            IN /\ log' = ld.log
               /\ IF ld.threw
                    THEN Reject(LoggerFailure.message) /\ UNCHANGED mapIdx
                    ELSE pc' = "map" /\ mapIdx' = 1 /\ UNCHANGED result
  /\ UNCHANGED <<opts, errorPool, tasks, order, adapterVars, mcp>>

\* The task of adapter i after its map callback called p.search `times` times.
StartedTask(i, times) ==
  LET st == SearchStart(ProviderList(opts)[i], SearchOptions(opts), log) IN
  [tasks[i] EXCEPT
     !.state = IF st.early THEN "early" ELSE "pending",
     !.calls = @ + times,
     !.requests = @ + (IF st.early \/ ProviderList(opts)[i].kind = "mock"
                         THEN 0 ELSE times * RequestsPerCall),
     !.outcome = IF st.early
                   THEN [ok |-> FALSE, results |-> <<>>, error |-> st.error]
                   ELSE @]

\* The task `task` of adapter i after its search settled (its pending
\* operation with t) and its map callback ran to its end.
SettledTask(task, i, t, lg) ==
  LET p == ProviderList(opts)[i]
      out == IF task.state = "early"
               THEN [ok |-> FALSE, results |-> <<>>, log |-> lg,
                     error |-> task.outcome.error]
               ELSE SearchFinish(p, SearchOptions(opts), t, lg)
      cb == CallbackValue(opts, p, out)
  IN [task |-> [task EXCEPT
                  !.state = "done",
                  !.transport = IF task.state = "early" THEN NoTransport ELSE t,
                  !.outcome = [ok |-> out.ok, results |-> out.results,
                               error |-> out.error],
                  !.value = cb.value],
      log |-> cb.log, rejected |-> cb.rejected]

InvokeWith(i, times) ==
  /\ pc = "map"
  /\ i = mapIdx
  /\ tasks' = [tasks EXCEPT ![i] = StartedTask(i, times)]
  /\ log' = SearchStart(ProviderList(opts)[i], SearchOptions(opts), log).log
  /\ mapIdx' = i + 1
  /\ pc' = IF i = NumProviders(opts) THEN "await" ELSE "map"
  /\ UNCHANGED <<opts, errorPool, order, result, adapterVars, mcp>>

\* Variant: search is called again after the first call.
InvokeTwice(i) == InvokeWith(i, 2)

\* Variant: the adapters are searched one after the other, each search
\* awaited before the next adapter is invoked.
InvokeSequential(i) ==
  /\ pc = "map"
  /\ i = mapIdx
  /\ LET started == StartedTask(i, 1)
         lg == SearchStart(ProviderList(opts)[i], SearchOptions(opts), log).log
     IN \E t \in (IF started.state = "pending"
                    THEN EnvOutcomes(ProviderList(opts)[i])
                    ELSE {TransportFail(started.outcome.error)}) :
          LET s == SettledTask(started, i, t, lg) IN
          /\ tasks' = [tasks EXCEPT ![i] = s.task]
          /\ order' = Append(order, i)
          /\ log' = s.log
  /\ mapIdx' = i + 1
  /\ pc' = IF i = NumProviders(opts) THEN "await" ELSE "map"
  /\ UNCHANGED <<opts, errorPool, result, adapterVars, mcp>>

\* One iteration of provider.map: the callback of adapter i runs up to its
\* `await p.search(...)` (lines 113-115).
\* Variant: without a query only the arxiv adapters are searched; the other
\* adapters are passed over with an empty result.
InvokeArxivOnly(i) ==
  /\ pc = "map"
  /\ i = mapIdx
  /\ LET p == ProviderList(opts)[i]
         skip == ~Truthy(opts.query) /\ p.name # "arxiv"
     IN /\ tasks' = [tasks EXCEPT ![i] =
                       IF skip
                         THEN [@ EXCEPT
                                 !.state = "done",
                                 !.outcome = [ok |-> TRUE, results |-> <<>>,
                                              error |-> NoError],
                                 !.value = [provider |-> p.name, results |-> <<>>,
                                            failed |-> FALSE, message |-> ""]]
                         ELSE StartedTask(i, 1)]
        /\ log' = IF skip THEN log
                  ELSE SearchStart(p, SearchOptions(opts), log).log
        /\ order' = IF skip THEN Append(order, i) ELSE order
  /\ mapIdx' = i + 1
  /\ pc' = IF i = NumProviders(opts) THEN "await" ELSE "map"
  /\ UNCHANGED <<opts, errorPool, result, adapterVars, mcp>>

InvokeSearch(i) == InvokeWith(i, 1)

\* The search of adapter i settles and its map callback runs to its end
\* (lines 115-160).
SettleSearch(i) ==
  /\ pc = "await"
  /\ tasks[i].state \in {"pending", "early"}
  /\ \E t \in (IF tasks[i].state = "pending"
                 THEN EnvOutcomes(ProviderList(opts)[i])
                 ELSE {TransportFail(tasks[i].outcome.error)}) :
       LET s == SettledTask(tasks[i], i, t, log) IN
       /\ tasks' = [tasks EXCEPT ![i] = s.task]
       /\ order' = Append(order, i)
       /\ log' = s.log
       /\ IF s.rejected THEN Reject(LoggerFailure.message)
          ELSE UNCHANGED <<pc, result>>
  /\ UNCHANGED <<opts, errorPool, mapIdx, adapterVars, mcp>>

\* Variant: the first completed map callback is enough to go on.
AnyDone == \E k \in 1..Len(tasks) : tasks[k].state = "done"

\* Promise.all(searchPromises) has resolved: every map callback completed.
AllDone == \A k \in 1..Len(tasks) : tasks[k].state = "done"

\* Promise.all resolved: the rest of webSearch (lines 164-191).
Collect ==
  /\ pc = "await"
  /\ AllDone
  /\ LET searchResults == PromiseAll([k \in 1..Len(tasks) |-> tasks[k].value], order)
         acc == CollectLoop(opts, searchResults, 1,
                            [allResults |-> <<>>, errors |-> <<>>,
                             log |-> log, threw |-> FALSE])
         successful == Cardinality({k \in 1..Len(searchResults) :
                                      ~searchResults[k].failed})
         ls == DebugLog(opts.debug, acc.log,
                 "Search complete: " \o ToString(Len(acc.allResults))
                   \o " total results from " \o ToString(successful) \o "/"
                   \o ToString(NumProviders(opts)) \o " providers",
                 [totalResults |-> Len(acc.allResults),
                  successfulProviders |-> successful,
                  failedProviders |-> Len(acc.errors)])
     IN IF acc.threw
          THEN log' = acc.log /\ Reject(LoggerFailure.message)
          ELSE /\ log' = ls.log
               /\ IF ls.threw THEN Reject(LoggerFailure.message)
                  ELSE IF ShouldThrow(acc.allResults, acc.errors)
                    THEN Reject(AggregateError(opts, acc.errors))
                  ELSE /\ pc' = "resolved"
                       /\ result' = [results |-> acc.allResults, error |-> ""]
  /\ UNCHANGED <<opts, errorPool, mapIdx, tasks, order, adapterVars, mcp>>

\* ------------------------------------------------------------------------
\* The module-level provider objects and configure()
\* ------------------------------------------------------------------------
Modules == {"perplexity", "parallel", "arxiv"}

\* export const perplexity / parallel / arxiv: `search` names the function
\* the object's search property holds.
ModuleSingletons ==
  [m \in Modules |-> [name |-> m, config |-> [apiKey |-> ""],
                      search |-> "unconfigured"]]

MustBeConfigured(m) ==
  CASE m = "perplexity" ->
         "Perplexity provider must be configured before use. Call perplexity.configure() first."
    [] m = "parallel" ->
         "Parallel search provider must be configured before use. Call parallel.configure() first."
    [] m = "arxiv" ->
         "Arxiv provider must be configured before use. Call arxiv.configure() first, even with empty options if defaults are fine."

\* create<Provider>Provider(config)
CreateProvider(m, config) ==
  CASE m = "perplexity" -> createPerplexityProvider(config)
    [] m = "parallel" -> createParallelProvider(config)
    [] m = "arxiv" -> createArxivProvider(config)

NoOptions ==
  [query |-> NoValue, idList |-> NoValue, maxResults |-> NoNumber,
   region |-> NoValue, language |-> NoValue, start |-> NoNumber,
   sortBy |-> NoValue, sortOrder |-> NoValue, debug |-> NoDebug]

NoConfig == [none |-> TRUE]

\* No direct call yet.  `config` is the argument of configure(), `options`
\* the argument of search() (of debug.*: its debug field), `transport` what
\* the pending request of the search settled with, `logged` the logger calls
\* made by a call of debug.*, `request` the request the search issued.
NoCall ==
  [target |-> "none", module |-> NoValue, handle |-> 0, state |-> "none",
   config |-> NoConfig, options |-> NoOptions, requests |-> 0,
   transport |-> NoTransport, results |-> <<>>, error |-> NoError,
   logged |-> <<>>, request |-> NoRequest]

\* Variant: configure() installs the configured search on the module object.
ConfigureInPlace(sgl, m, h) ==
  [sgl EXCEPT ![m] = [name |-> m, config |-> h.config,
                      search |-> "configured"]]

\* The module objects after <module>.configure(config) returned handle h.
AfterConfigure(sgl, m, h) == sgl

\* <module>.configure(config)
Configure(m, config) ==
  /\ call.state # "pending"
  /\ Len(handles) < MaxHandles
  /\ LET r == CreateProvider(m, config) IN
     IF r.threw
       THEN /\ call' = [NoCall EXCEPT !.target = "configure", !.module = m,
                          !.state = "threw", !.config = config,
                          !.error = MkError("Error", r.message, NoStatus)]
            /\ UNCHANGED <<singletons, handles>>
       ELSE /\ handles' = Append(handles, r.handle)
            /\ singletons' = AfterConfigure(singletons, m, r.handle)
            /\ call' = [NoCall EXCEPT !.target = "configure", !.module = m,
                          !.state = "returned", !.config = config,
                          !.handle = Len(handles) + 1]
  /\ UNCHANGED <<engineVars, log, mcp>>

\* Variant: the request is issued before the options are validated.
StartedCallRequestFirst(target, m, k, h, options) ==
  LET st == SearchStart(h, options, log) IN
  [target |-> target, module |-> m, handle |-> k,
   state |-> IF st.early THEN "rejected" ELSE "pending",
   config |-> h.config, options |-> options,
   requests |-> RequestsPerCall,
   transport |-> NoTransport, results |-> <<>>, error |-> st.error,
   logged |-> <<>>, request |-> st.request]

\* The call record after the synchronous part of h.search(options).
StartedCall(target, m, k, h, options) ==
  LET st == SearchStart(h, options, log) IN
  [target |-> target, module |-> m, handle |-> k,
   state |-> IF st.early THEN "rejected" ELSE "pending",
   config |-> h.config, options |-> options,
   requests |-> IF st.early THEN 0 ELSE RequestsPerCall,
   transport |-> NoTransport, results |-> <<>>, error |-> st.error,
   logged |-> <<>>, request |-> st.request]

\* <module>.search(options) on the module object itself
SingletonSearch(m, options) ==
  /\ call.state # "pending"
  /\ IF singletons[m].search = "unconfigured"
       THEN /\ call' = [NoCall EXCEPT !.target = "singleton", !.module = m,
                          !.state = "rejected", !.options = options,
                          !.error = MkError("Error", MustBeConfigured(m), NoStatus)]
            /\ UNCHANGED log
       ELSE LET h == [name |-> m, kind |-> m, config |-> singletons[m].config] IN
            /\ call' = StartedCall("singleton", m, 0, h, options)
            /\ log' = SearchStart(h, options, log).log
  /\ UNCHANGED <<engineVars, singletons, handles, mcp>>

\* handle.search(options) on a handle returned by configure(): up to the
\* transport call
HandleSearch(k, options) ==
  /\ call.state # "pending"
  /\ k \in 1..Len(handles)
  /\ call' = StartedCall("handle", handles[k].name, k, handles[k], options)
  /\ log' = SearchStart(handles[k], options, log).log
  /\ UNCHANGED <<engineVars, singletons, handles, mcp>>

\* The transport call of the pending search settles; the search settles.
HandleSettle ==
  /\ call.state = "pending"
  /\ LET h == IF call.handle = 0
                THEN [name |-> call.module, kind |-> call.module,
                      config |-> singletons[call.module].config]
                ELSE handles[call.handle]
     IN \E t \in EnvOutcomes(h) :
          LET out == SearchFinish(h, call.options, t, log) IN
          /\ call' = [call EXCEPT
                        !.state = IF out.ok THEN "resolved" ELSE "rejected",
                        !.transport = t,
                        !.results = out.results, !.error = out.error]
          /\ log' = out.log
  /\ UNCHANGED <<engineVars, singletons, handles, mcp>>

\* ------------------------------------------------------------------------
\* The calls of webSearch that are followed
\* ------------------------------------------------------------------------
PerplexityHandle == createPerplexityProvider(PerplexityConfig("pplx-key")).handle

EngineHandles == {MockHandle("google"), MockHandle("arxiv"), PerplexityHandle}

\* Lists of pairwise different handles.
RECURSIVE HandleLists(_)
HandleLists(n) ==
  IF n = 0 THEN {<<>>}
  ELSE {ext \in {Append(l, h) : l \in HandleLists(n - 1), h \in EngineHandles} :
          \A k \in 1..(n - 1) : ext[k] # ext[n]}

EngineProviders ==
  {[defined |-> FALSE, list |-> <<>>]}
    \cup {[defined |-> TRUE, list |-> l] :
            l \in UNION {HandleLists(n) : n \in 0..MaxProviders}}

DebugAll ==
  [defined |-> TRUE, enabled |-> TRUE, logRequests |-> TRUE,
   logResponses |-> TRUE, logger |-> "record"]

\* Every kind of log line enabled, with a logger that throws.
DebugThrows == [DebugAll EXCEPT !.logger = "throws"]

\* { enabled: true, logger }: the other flags keep their default.
DebugEnabledOnly ==
  [DebugAll EXCEPT !.logRequests = FALSE, !.logResponses = FALSE]

EngineErrors ==
  {MkError("Error", "boom", NoStatus),
   MkError("HttpError", "Unauthorized", 401),
   MkError("NonError", "string error", NoStatus)}

\* Every query, idList and debug option with lists of at most one adapter;
\* with longer lists, the query "test" without idList and the idList without
\* query.
EngineOptions ==
  {o \in [provider : EngineProviders,
          query : {NoValue, "", "   ", "test"},
          idList : {NoValue, "", "2305.02392"},
          maxResults : {NoNumber}, region : {NoValue}, language : {NoValue},
          debug : {NoDebug, DebugAll, DebugThrows, DebugEnabledOnly}] :
     \/ Len(o.provider.list) <= 1
     \/ o.query = "test" /\ o.idList = NoValue /\ o.debug # DebugEnabledOnly
     \/ o.query = NoValue /\ o.idList = "2305.02392" /\ o.debug = NoDebug}

Init ==
  /\ opts \in EngineOptions
  /\ errorPool = EngineErrors
  /\ pc = "start"
  /\ mapIdx = 0
  /\ tasks = [k \in 1..Len(opts.provider.list) |-> IdleTask]
  /\ order = <<>>
  /\ result = [results |-> <<>>, error |-> ""]
  /\ log = <<>>
  /\ singletons = ModuleSingletons
  /\ handles = <<>>
  /\ call = NoCall
  /\ mcp = NoMcp

Next ==
  \/ WebSearchCall
  \/ \E i \in 1..Len(tasks) : InvokeSearch(i)
  \/ \E i \in 1..Len(tasks) : SettleSearch(i)
  \/ Collect

vars ==
  <<opts, errorPool, pc, mapIdx, tasks, order, result, log, singletons,
    handles, call, mcp>>

Spec == Init /\ [][Next]_vars


\* ------------------------------------------------------------------------
\* webSearch under the scheduling of the event loop
\* ------------------------------------------------------------------------
\* Calls with a query and without debugging, to adapters whose search is
\* settled by the test; one value to fail with.
InitFair ==
  /\ opts \in {o \in EngineOptions :
                 /\ o.query = "test" /\ o.idList = NoValue /\ o.debug = NoDebug
                 /\ \A k \in 1..Len(o.provider.list) :
                      o.provider.list[k].kind = "mock"}
  /\ errorPool = {MkError("Error", "boom", NoStatus)}
  /\ pc = "start"
  /\ mapIdx = 0
  /\ tasks = [k \in 1..Len(opts.provider.list) |-> IdleTask]
  /\ order = <<>>
  /\ result = [results |-> <<>>, error |-> ""]
  /\ log = <<>>
  /\ singletons = ModuleSingletons
  /\ handles = <<>>
  /\ call = NoCall
  /\ mcp = NoMcp

\* The synchronous code of webSearch runs to its end once called, and the
\* continuation after Promise.all runs once Promise.all has resolved; when
\* the search of an adapter settles is up to the adapter.
SpecFair ==
  /\ InitFair /\ [][Next]_vars
  /\ WF_vars(WebSearchCall)
  /\ WF_vars(\E i \in 1..MaxProviders : InvokeSearch(i))
  /\ WF_vars(Collect)

\* ------------------------------------------------------------------------
\* webSearch over the adapters of the SDK
\* ------------------------------------------------------------------------
BuiltinHandles ==
  {PerplexityHandle,
   createParallelProvider(ParallelConfig("par-key", NoNumber)).handle,
   createArxivProvider(ArxivConfig(NoValue)).handle}

\* The responses the API of an adapter can fail with, and a failure without
\* a response.
BuiltinErrors ==
  {MkHttpError("Request failed", c, NoValue) : c \in {400, 401, 403, 429, 500}}
    \cup {MkError("Error", "Request timeout after 5000ms", NoStatus)}

InitBuiltin ==
  /\ opts \in [provider : {[defined |-> TRUE, list |-> <<h>>] : h \in BuiltinHandles},
                query : {NoValue, "test"}, idList : {NoValue, "2305.02392"},
                maxResults : {NoNumber}, region : {NoValue}, language : {NoValue},
                debug : {NoDebug, DebugAll}]
  /\ errorPool = BuiltinErrors
  /\ pc = "start"
  /\ mapIdx = 0
  /\ tasks = [k \in 1..Len(opts.provider.list) |-> IdleTask]
  /\ order = <<>>
  /\ result = [results |-> <<>>, error |-> ""]
  /\ log = <<>>
  /\ singletons = ModuleSingletons
  /\ handles = <<>>
  /\ call = NoCall
  /\ mcp = NoMcp

SpecBuiltin == InitBuiltin /\ [][Next]_vars

\* ------------------------------------------------------------------------
\* The failing calls of webSearch that are followed for the failure text
\* ------------------------------------------------------------------------
StatusHandles ==
  {MockHandle(n) : n \in {"google", "duckduckgo", "searxng", "perplexity", "exa"}}

StatusCodes == {400, 401, 403, 404, 429, 500, 503}

StatusErrors ==
  {MkError("HttpError", "Request failed", c) : c \in StatusCodes}
    \cup {MkError("HttpError", "API key not valid", 400),
          MkError("HttpError", "Error: [object Object]", 401),
          MkError("Error", "boom", NoStatus),
          MkError("NonError", "string error", NoStatus)}

StatusOptions ==
  [provider : {[defined |-> TRUE, list |-> <<h>>] : h \in StatusHandles},
   query : {"test"}, idList : {NoValue}, maxResults : {NoNumber},
   region : {NoValue}, language : {NoValue}, debug : {NoDebug}]

InitStatus ==
  /\ opts \in StatusOptions
  /\ errorPool = StatusErrors
  /\ pc = "start"
  /\ mapIdx = 0
  /\ tasks = [k \in 1..Len(opts.provider.list) |-> IdleTask]
  /\ order = <<>>
  /\ result = [results |-> <<>>, error |-> ""]
  /\ log = <<>>
  /\ singletons = ModuleSingletons
  /\ handles = <<>>
  /\ call = NoCall
  /\ mcp = NoMcp

SpecStatus == InitStatus /\ [][Next]_vars

\* ------------------------------------------------------------------------
\* The direct calls of configure() and search() that are followed
\* ------------------------------------------------------------------------
ConfigChoices(m) ==
  CASE m = "perplexity" ->
         {PerplexityConfig("pplx-key"), PerplexityConfig(""),
          PerplexityConfig(NoValue)}
    [] m = "parallel" ->
         {ParallelConfig("par-key", NoNumber), ParallelConfig("par-key", 5),
          ParallelConfig("", NoNumber), ParallelConfig(NoValue, NoNumber)}
    [] m = "arxiv" -> {ArxivConfig(NoValue)}

\* The result counts a caller asks for, besides omitting maxResults.
MaxResultsChoices == {-1, 0, 1, 5, 20, 21, 100}

DirectOptions ==
  {[NoOptions EXCEPT !.query = q, !.idList = ids] :
     q \in {NoValue, "", "test"}, ids \in {NoValue, "2305.02392"}}
    \cup {[NoOptions EXCEPT !.query = "test", !.maxResults = n] :
            n \in MaxResultsChoices}

DirectErrors ==
  {MkHttpError("Unauthorized", 401, "{\"error\":\"Unauthorized\"}"),
   MkError("Error", "Request timeout after 5000ms", NoStatus),
   MkError("NonError", "string error", NoStatus)}

InitAdapters ==
  /\ opts = [provider |-> [defined |-> FALSE, list |-> <<>>],
             query |-> NoValue, idList |-> NoValue, maxResults |-> NoNumber,
             region |-> NoValue, language |-> NoValue, debug |-> NoDebug]
  /\ errorPool = DirectErrors
  /\ pc = "idle"
  /\ mapIdx = 0
  /\ tasks = <<>>
  /\ order = <<>>
  /\ result = [results |-> <<>>, error |-> ""]
  /\ log = <<>>
  /\ singletons = ModuleSingletons
  /\ handles = <<>>
  /\ call = NoCall
  /\ mcp = NoMcp

NextAdapters ==
  \/ \E m \in Modules : \E config \in ConfigChoices(m) : Configure(m, config)
  \/ \E m \in Modules : \E options \in DirectOptions : SingletonSearch(m, options)
  \/ \E k \in 1..MaxHandles : \E options \in DirectOptions : HandleSearch(k, options)
  \/ HandleSettle

SpecAdapters == InitAdapters /\ [][NextAdapters]_vars

\* ------------------------------------------------------------------------
\* The direct calls of debug.log, debug.logRequest and debug.logResponse
\* ------------------------------------------------------------------------
DebugFunctions == {"debug.log", "debug.logRequest", "debug.logResponse"}

\* The DebugOptions passed: undefined, or any flags with a caller's logger.
DebugChoices ==
  {NoDebug}
    \cup [defined : {TRUE}, enabled : BOOLEAN, logRequests : BOOLEAN,
          logResponses : BOOLEAN, logger : {"record", "throws"}]

\* The call record after fn(d, "message") returned or threw.
DebugCalled(fn, d, r) ==
  [NoCall EXCEPT !.target = fn,
                 !.state = IF r.threw THEN "threw" ELSE "returned",
                 !.options = [NoOptions EXCEPT !.debug = d],
                 !.logged = SubSeq(r.log, Len(log) + 1, Len(r.log))]

\* debug.log(d, "message")
CallDebugLog(d) ==
  /\ Len(log) < MaxLogLines
  /\ LET r == DebugLog(d, log, "message", NoData) IN
     log' = r.log /\ call' = DebugCalled("debug.log", d, r)
  /\ UNCHANGED <<engineVars, singletons, handles, mcp>>

\* debug.logRequest(d, "message", {})
CallDebugLogRequest(d) ==
  /\ Len(log) < MaxLogLines
  /\ LET r == DebugLogRequest(d, log, "message", [url |-> "u"]) IN
     log' = r.log /\ call' = DebugCalled("debug.logRequest", d, r)
  /\ UNCHANGED <<engineVars, singletons, handles, mcp>>

\* debug.logResponse(d, "message", {})
CallDebugLogResponse(d) ==
  /\ Len(log) < MaxLogLines
  /\ LET r == DebugLogResponse(d, log, "message", [status |-> "success"]) IN
     log' = r.log /\ call' = DebugCalled("debug.logResponse", d, r)
  /\ UNCHANGED <<engineVars, singletons, handles, mcp>>

NextDebug ==
  \/ \E d \in DebugChoices : CallDebugLog(d)
  \/ \E d \in DebugChoices : CallDebugLogRequest(d)
  \/ \E d \in DebugChoices : CallDebugLogResponse(d)

SpecDebug == InitAdapters /\ [][NextDebug]_vars

\* ------------------------------------------------------------------------
\* Properties of webSearch
\* ------------------------------------------------------------------------
Settled == pc \in {"resolved", "rejected"}
N == Len(tasks)
Adapter(i) == opts.provider.list[i]
SearchOk(i) == tasks[i].state = "done" /\ tasks[i].outcome.ok
SearchFailed(i) == tasks[i].state = "done" /\ ~tasks[i].outcome.ok
SearchResults(i) == tasks[i].outcome.results
ArxivSupplied == \E i \in 1..N : Adapter(i).name = "arxiv"
NoSearchInvoked == \A i \in 1..N : tasks[i].calls = 0 /\ tasks[i].requests = 0
RejectedWith(message) == pc = "rejected" /\ result.error = message

\* Number of results the adapters before adapter i resolved with.
RECURSIVE Offset(_)
Offset(i) == IF i <= 1 THEN 0 ELSE Offset(i - 1) + Len(SearchResults(i - 1))

\* C1: when every adapter succeeds, webSearch resolves with the adapters'
\* result lists concatenated in the order the adapters were supplied, whatever
\* the order in which the searches completed; each list keeps its own order.
C1_ConcatenationInSuppliedOrder ==
  (Settled /\ N > 0 /\ \A i \in 1..N : SearchOk(i)) =>
     /\ pc = "resolved"
     /\ Len(result.results) = Offset(N + 1)
     /\ \A i \in 1..N : \A k \in 1..Len(SearchResults(i)) :
          result.results[Offset(i) + k] = SearchResults(i)[k]

C1_Witness ==
  /\ pc = "resolved" /\ N = 2 /\ order = <<2, 1>>
  /\ SearchOk(1) /\ SearchOk(2)
  /\ Len(SearchResults(1)) = 2 /\ Len(SearchResults(2)) = 1
  /\ SearchResults(1)[1] # SearchResults(2)[1]

\* The results of the successful adapters from adapter i on, in list order.
RECURSIVE SuccessfulFrom(_)
SuccessfulFrom(i) ==
  IF i > N THEN <<>>
  ELSE IF SearchOk(i) THEN SearchResults(i) \o SuccessfulFrom(i + 1)
  ELSE SuccessfulFrom(i + 1)

\* C2: when at least one adapter succeeds with results, webSearch resolves
\* with exactly the results of the successful adapters, however many adapters
\* failed; failed adapters contribute nothing.
C2_FailSoft ==
  (Settled /\ \E i \in 1..N : SearchOk(i) /\ SearchResults(i) # <<>>) =>
     /\ pc = "resolved"
     /\ result.results = SuccessfulFrom(1)

C2_Witness ==
  /\ pc = "resolved" /\ N = 2
  /\ SearchFailed(1) /\ tasks[1].requests = 0
  /\ SearchOk(2) /\ Len(SearchResults(2)) > 0
  /\ result.results = SearchResults(2)

\* C3: if at least one adapter succeeds, even with an empty list, webSearch
\* raises no error; the aggregate error is raised only when all adapters fail.
C3_NoErrorWhenOneSucceeds ==
  (Settled /\ \E i \in 1..N : SearchOk(i)) => pc = "resolved"

\* C4: if every adapter fails, webSearch rejects with one error whose message
\* contains every adapter's name and every adapter's own failure text.
C4_AllFailuresEnumerated ==
  (Settled /\ N > 0 /\ \A i \in 1..N : SearchFailed(i)) =>
     /\ pc = "rejected"
     /\ Includes(result.error,
                 "All " \o ToString(N) \o " provider(s) failed")
     /\ \A i \in 1..N :
          /\ Includes(result.error, "'" \o Adapter(i).name \o "'")
          /\ Includes(result.error, tasks[i].outcome.error.message)

C4_Witness ==
  /\ pc = "rejected" /\ N = 2
  /\ SearchFailed(1) /\ SearchFailed(2)
  /\ Adapter(1).name # Adapter(2).name
  /\ tasks[1].outcome.error.message # tasks[2].outcome.error.message

\* C5: once validation passes, search is invoked on every adapter before any
\* adapter's outcome is awaited: no map callback has completed while an
\* adapter is still to be invoked, and webSearch suspends with all N searches
\* invoked.
C5_AllInvokedBeforeAnyOutcome ==
  /\ (\E i \in 1..N : tasks[i].state = "done") =>
        \A j \in 1..N : tasks[j].calls >= 1
  /\ pc = "await" => \A j \in 1..N : tasks[j].calls >= 1

C5_Witness ==
  /\ pc = "await" /\ N >= 2
  /\ \A i \in 1..N : tasks[i].state = "pending"
  /\ order = <<>>

\* C6: with an empty or missing adapter list webSearch fails with the
\* "at least one provider" error whatever the other fields are, and no
\* adapter search and no request happens.
C6_EmptyProviderList ==
  (~opts.provider.defined \/ Len(opts.provider.list) = 0) =>
     /\ pc \in {"start", "rejected"}
     /\ pc = "rejected" => result.error = ProviderError
     /\ NoSearchInvoked
     /\ log = <<>>

C6_Witness ==
  /\ RejectedWith(ProviderError)
  /\ ~Truthy(opts.query)
  /\ opts.provider.defined /\ opts.debug.enabled

\* C7: with a non-empty adapter list and no query, webSearch rejects with the
\* "query or ID list" error and invokes no adapter, unless the list holds an
\* adapter named arxiv and an idList is given: then, and only then, the call
\* goes on to dispatch.
C7_QueryOrArxivIdList ==
  (N > 0 /\ ~Truthy(opts.query) /\ pc # "start") =>
     IF ArxivSupplied /\ Truthy(opts.idList)
       THEN /\ ~RejectedWith(QueryError)
            /\ mapIdx >= 1
       ELSE /\ RejectedWith(QueryError)
            /\ NoSearchInvoked

C7_Witness ==
  /\ N = 2 /\ ~Truthy(opts.query) /\ Truthy(opts.idList)
  /\ Adapter(1).name # "arxiv" /\ Adapter(2).name = "arxiv"
  /\ pc = "resolved" /\ tasks[2].calls = 1

\* C8: a query made only of whitespace is equivalent to no query: without an
\* arxiv adapter and idList, webSearch rejects with the "query or ID list"
\* error and invokes no adapter.
C8_WhitespaceQueryRejected ==
  (N > 0 /\ opts.query # NoValue /\ opts.query # "" /\ Trim(opts.query) = ""
     /\ ~(ArxivSupplied /\ Truthy(opts.idList)) /\ pc # "start") =>
     /\ RejectedWith(QueryError)
     /\ NoSearchInvoked

\* C9: no retry: each adapter's search is invoked at most once, exactly once
\* when webSearch has dispatched; a failure is recorded once and never
\* re-attempted, and an adapter issues no request after a failed one.
C9_NoRetry ==
  /\ \A i \in 1..N : tasks[i].calls <= 1 /\ tasks[i].requests <= 1
  /\ \A i \in 1..N : tasks[i].state # "idle" => tasks[i].calls = 1
  /\ \A i \in 1..N :
       Cardinality({k \in 1..Len(order) : order[k] = i})
         = (IF tasks[i].state = "done" THEN 1 ELSE 0)

C9_Witness ==
  /\ pc = "rejected" /\ N = 2
  /\ Adapter(1).kind = "perplexity" /\ SearchFailed(1)
  /\ tasks[1].calls = 1 /\ tasks[1].requests = 1
  /\ Adapter(2).kind = "mock" /\ SearchFailed(2) /\ tasks[2].calls = 1


\* ------------------------------------------------------------------------
\* Properties of the module-level provider objects
\* ------------------------------------------------------------------------
\* C10: search() on a provider's module-level object always rejects with a
\* "must be configured" error and issues no request, also after configure()
\* was called on it any number of times: configure() returns a separate
\* handle and leaves the module object unchanged.
C10_UnconfiguredSingletonRejects ==
  /\ call.target = "singleton" =>
       /\ call.state = "rejected"
       /\ Includes(call.error.message, "must be configured")
       /\ call.requests = 0
  /\ \A m \in Modules :
       /\ singletons[m].config = [apiKey |-> ""]
       /\ singletons[m].name = m

C10_Witness ==
  /\ call.target = "singleton" /\ call.state = "rejected"
  /\ Truthy(call.options.query)
  /\ Len(handles) >= 2
  /\ \A k \in 1..Len(handles) : handles[k].name = call.module

\* ------------------------------------------------------------------------
\* Properties of the adapters
\* ------------------------------------------------------------------------
NeedsApiKey(m) == m \in {"perplexity", "parallel"}

\* C11: configure() of Perplexity or Parallel with an absent or empty API
\* key throws an error naming the API key; it returns no handle (no handle
\* without a key ever exists) and issues no request.
C11_MissingKeyFailsConstruction ==
  /\ (call.target = "configure" /\ NeedsApiKey(call.module)
        /\ call.config.apiKey \in {NoValue, ""}) =>
       /\ call.state = "threw"
       /\ call.error.kind = "Error"
       /\ Includes(call.error.message, "requires an API key")
       /\ call.handle = 0
       /\ call.requests = 0
  /\ \A k \in 1..Len(handles) :
       NeedsApiKey(handles[k].name) => handles[k].config.apiKey \notin {NoValue, ""}

C11_Witness ==
  /\ call.target = "configure" /\ call.state = "threw"
  /\ call.module = "parallel" /\ call.config.apiKey = ""
  /\ Len(handles) = 1 /\ handles[1].name = "parallel"

\* C12: search() of a configured adapter without a query (Arxiv: without
\* query and without idList) rejects with an Error saying what the search
\* requires, and no request is issued.
C12_NoQueryRejectsBeforeRequest ==
  (/\ call.target = "handle"
   /\ call.options.query \in {NoValue, ""}
   /\ call.module = "arxiv" => call.options.idList \in {NoValue, ""}) =>
     /\ call.state = "rejected"
     /\ call.requests = 0
     /\ call.error.kind = "Error"
     /\ Includes(call.error.message, "search requires")
     /\ Includes(call.error.message, "query")

C12_Witness ==
  /\ call.target = "handle" /\ call.module = "arxiv"
  /\ call.options.query = NoValue /\ call.options.idList = NoValue
  /\ call.state = "rejected" /\ call.requests = 0

\* The request of a direct search() settled with a parsed response that
\* carries no result list, or an empty one.
EmptyResponse ==
  /\ call.target = "handle" /\ call.state \in {"resolved", "rejected"}
  /\ call.transport.ok
  /\ ~call.transport.hasResults \/ call.transport.items = <<>>

\* C13: a successful response whose native result list is absent or empty
\* makes the search of every adapter resolve with the empty list.
C13_EmptyResponseMapsToEmptyList ==
  EmptyResponse => call.state = "resolved" /\ call.results = <<>>

C13_Witness ==
  /\ EmptyResponse /\ ~call.transport.hasResults
  /\ call.module = "perplexity" /\ call.requests = 1
  /\ call.state = "resolved" /\ call.results = <<>>

\* The request of a direct search() settled with a parsed response that
\* carries a result list.
ListResponse ==
  /\ call.target = "handle" /\ call.state \in {"resolved", "rejected"}
  /\ call.transport.ok /\ call.transport.hasResults

\* result.domain, undefined when the canonical result has no such property
DomainOf(r) == IF "domain" \in DOMAIN r THEN r.domain ELSE NoValue

MalformedUrl(u) == ~Includes(u, "://")

\* C14: a native result with a malformed URL gets domain undefined and does
\* not make the search fail: the search resolves with one canonical result
\* per native result, each with the native URL, and every result with a
\* well-formed URL gets the host name of its URL.  An adapter that derives
\* no domain (Arxiv) leaves it undefined.
C14_MalformedUrlLeavesDomainUndefined ==
  /\ (ListResponse /\ call.module \in {"perplexity", "parallel"}) =>
       /\ call.state = "resolved"
       /\ Len(call.results) = Len(call.transport.items)
       /\ \A k \in 1..Len(call.results) :
            LET r == call.results[k]
                u == NativeUrl(call.transport.items[k])
            IN /\ r.url = u /\ r.raw.url = u
               /\ IF MalformedUrl(u) THEN DomainOf(r) = NoValue
                  ELSE /\ Truthy(DomainOf(r))
                       /\ Includes(u, "://" \o DomainOf(r))
  /\ (ListResponse /\ call.module = "arxiv") =>
       \A k \in 1..Len(call.results) : DomainOf(call.results[k]) = NoValue

C14_Witness ==
  /\ ListResponse /\ call.module = "perplexity" /\ call.state = "resolved"
  /\ Len(call.results) = 2
  /\ MalformedUrl(call.results[1].url) /\ call.results[1].domain = NoValue
  /\ call.results[2].domain = "a.com"

\* C15: every canonical result a configured adapter resolves with has a url
\* and a title; a native record without a title gets a placeholder title.
C15_UrlAndTitlePresent ==
  (call.target = "handle" /\ call.state = "resolved") =>
     \A k \in 1..Len(call.results) :
       /\ Truthy(call.results[k].url)
       /\ Truthy(call.results[k].title)

StartsWith(s, prefix) ==
  Len(s) >= Len(prefix) /\ SubSeq(s, 1, Len(prefix)) = prefix

DisplayName(m) ==
  CASE m = "perplexity" -> "Perplexity"
    [] m = "parallel" -> "Parallel"
    [] m = "arxiv" -> "Arxiv"

\* The prefixes an adapter puts before the message of the value e it caught.
FailurePrefixes(m, e) ==
  {DisplayName(m) \o " search failed: "}
    \cup (IF m = "arxiv" /\ e.kind = "HttpError"
            THEN {"Arxiv API error: " \o ToString(e.statusCode) \o " - "}
            ELSE {})

\* The request of a direct search() was issued and has settled.
RequestSettled ==
  /\ call.target = "handle" /\ call.state \in {"resolved", "rejected"}
  /\ call.requests > 0

FailureHead(i) ==
  "Search with provider '" \o Adapter(i).name \o "' failed: "
    \o tasks[i].outcome.error.message

\* C17: the failure text recorded for a failing adapter is "Search with
\* provider '<name>' failed: " followed by the message of what the adapter
\* threw, then nothing or "\n\nTroubleshooting: " and a non-empty text; when
\* webSearch rejects because all failed, its error carries every such text.
C17_TroubleshootingIsAppended ==
  \A i \in 1..N : SearchFailed(i) =>
     LET text == tasks[i].value.message
         marker == FailureHead(i) \o "\n\nTroubleshooting: "
     IN /\ tasks[i].value.failed
        /\ \/ text = FailureHead(i)
           \/ StartsWith(text, marker) /\ Len(text) > Len(marker)
        /\ (pc = "rejected" /\ Includes(result.error, "provider(s) failed"))
             => Includes(result.error, text)

C17_Witness ==
  /\ pc = "rejected" /\ N = 2
  /\ SearchFailed(1) /\ SearchFailed(2)
  /\ tasks[1].value.message = FailureHead(1)
  /\ StartsWith(tasks[2].value.message,
                FailureHead(2) \o "\n\nTroubleshooting: ")
  /\ tasks[2].outcome.error.kind = "NonError"

\* The troubleshooting text attached to the failure text of adapter i.
AttachedText(i) ==
  LET text == tasks[i].value.message
      marker == FailureHead(i) \o "\n\nTroubleshooting: "
  IN IF StartsWith(text, marker)
       THEN SubSeq(text, Len(marker) + 1, Len(text))
       ELSE ""

InCategory(text, category) ==
  CASE category = "credential" ->
         \/ Includes(text, "authentication issue")
         \/ Includes(text, "API key") \/ Includes(text, "token")
    [] category = "parameters" ->
         \/ Includes(text, "invalid request parameters")
         \/ Includes(text, "search parameters")
    [] category = "rate limit" ->
         \/ Includes(text, "rate limit") \/ Includes(text, "too many requests")
         \/ Includes(text, "quota")
    [] category = "server" -> Includes(text, "server issues")

StatusCategory(statusCode) ==
  IF statusCode = 401 \/ statusCode = 403 THEN "credential"
  ELSE IF statusCode = 400 THEN "parameters"
  ELSE IF statusCode = 429 THEN "rate limit"
  ELSE IF statusCode >= 500 THEN "server"
  ELSE "none"

\* The failure of adapter i carries the status code statusCode.
FailedWithStatus(i, statusCode) ==
  /\ SearchFailed(i)
  /\ tasks[i].outcome.error.kind = "HttpError"
  /\ tasks[i].outcome.error.statusCode = statusCode

FailedWithoutStatus(i) ==
  SearchFailed(i) /\ tasks[i].outcome.error.kind # "HttpError"

\* The message of the failure of adapter i contains one of the phrases the
\* adapter's name has a hint of its own for.
MessageHintApplies(i) ==
  LET message == tasks[i].outcome.error.message
      name == Adapter(i).name
  IN \/ name = "google" /\ (Includes(message, "API key") \/ Includes(message, "quota"))
     \/ name = "serpapi" /\ Includes(message, "apiKey")
     \/ name = "brave" /\ Includes(message, "token")
     \/ name = "searxng" /\ Includes(message, "not found")
     \/ name = "duckduckgo" /\ (Includes(message, "vqd") \/ Includes(message, "rate"))
     \/ name = "perplexity"
          /\ (Includes(message, "api_key") \/ Includes(message, "apiKey"))

NoStatusCategoryText(text) ==
  /\ ~Includes(text, "authentication issue")
  /\ ~Includes(text, "invalid request parameters")
  /\ ~Includes(text, "rate limit")
  /\ ~Includes(text, "server issues")

\* C18: the troubleshooting text of a failure with status 401 or
\* 403 is about credentials, with 400 about the parameters, with 429 about the
\* rate limit, with a status >= 500 about a server issue; a failure without
\* status gets none of these texts.
C18_TextInStatusCategory ==
  \A i \in 1..N :
    /\ \A c \in StatusCodes :
         (FailedWithStatus(i, c) /\ StatusCategory(c) # "none") =>
            InCategory(AttachedText(i), StatusCategory(c))
    /\ FailedWithoutStatus(i) => NoStatusCategoryText(AttachedText(i))

\* ------------------------------------------------------------------------
\* Properties of the debug hook
\* ------------------------------------------------------------------------
\* The options of the call with debugging disabled.
DisabledOpts == [opts EXCEPT !.debug = NoDebug]

\* What the search of adapter i settles with under DisabledOpts when its
\* request settles as it did.
DisabledOutcome(i) ==
  LET p == Adapter(i)
      st == SearchStart(p, SearchOptions(DisabledOpts), <<>>)
  IN IF st.early
       THEN [ok |-> FALSE, results |-> <<>>, log |-> <<>>, error |-> st.error]
       ELSE SearchFinish(p, SearchOptions(DisabledOpts), tasks[i].transport, <<>>)

\* What webSearch settles with under DisabledOpts when every request settles
\* as it did.
DisabledResult ==
  IF Validate(DisabledOpts) # ""
    THEN [pc |-> "rejected",
          result |-> [results |-> <<>>, error |-> Validate(DisabledOpts)]]
    ELSE LET values == [k \in 1..N |->
                          CallbackValue(DisabledOpts, Adapter(k),
                                        DisabledOutcome(k)).value]
             acc == CollectLoop(DisabledOpts, values, 1,
                                [allResults |-> <<>>, errors |-> <<>>,
                                 log |-> <<>>, threw |-> FALSE])
         IN IF Len(acc.allResults) = 0 /\ Len(acc.errors) > 0
              THEN [pc |-> "rejected",
                    result |-> [results |-> <<>>,
                                error |-> AggregateError(DisabledOpts, acc.errors)]]
              ELSE [pc |-> "resolved",
                    result |-> [results |-> acc.allResults, error |-> ""]]

ThrowingLogger == opts.debug.defined /\ opts.debug.logger = "throws"

\* C19: with a logger that throws, every search of an adapter settles as it
\* does with debugging disabled, webSearch settles with the same results or
\* the same error as with debugging disabled, and the logger's exception is
\* never the outcome of anything.
C19_ThrowingLoggerChangesNothing ==
  ThrowingLogger =>
    /\ \A i \in 1..N : tasks[i].state = "done" =>
         /\ tasks[i].outcome.ok = DisabledOutcome(i).ok
         /\ tasks[i].outcome.results = DisabledOutcome(i).results
         /\ tasks[i].outcome.error = DisabledOutcome(i).error
         /\ tasks[i].outcome.error # LoggerFailure
    /\ Settled =>
         /\ pc = DisabledResult.pc
         /\ result = DisabledResult.result
         /\ result.error # LoggerFailure.message

C19_Witness ==
  /\ ThrowingLogger /\ pc = "resolved" /\ N = 2
  /\ Adapter(1).kind = "perplexity" /\ SearchFailed(1)
  /\ SearchOk(2) /\ Len(result.results) > 0
  /\ \E k \in 1..Len(log) :
       log[k].sink = "throws" /\ StartsWith(log[k].message, "REQUEST: ")
  /\ \E k \in 1..Len(log) :
       log[k].sink = "throws" /\ StartsWith(log[k].message, "RESPONSE: ")
  /\ \E k \in 1..Len(log) :
       log[k].sink = "throws" /\ StartsWith(log[k].message, "Search complete")

\* The flags of d ask for a log line from fn.
FlagsImply(fn, d) ==
  /\ d.defined /\ d.enabled
  /\ fn = "debug.logRequest" => d.logRequests
  /\ fn = "debug.logResponse" => d.logResponses

LinePrefix(fn) ==
  CASE fn = "debug.log" -> ""
    [] fn = "debug.logRequest" -> "REQUEST: "
    [] fn = "debug.logResponse" -> "RESPONSE: "

\* C20: a call of debug.log, debug.logRequest or debug.logResponse returns
\* and invokes the caller's logger exactly once when enabled (and, for
\* logRequest / logResponse, logRequests / logResponses) is true, with the
\* message prefixed "REQUEST: " / "RESPONSE: " for the latter two, and not
\* at all otherwise, also when the options are undefined; the logger has
\* received nothing but these lines.
C20_LoggerCallsFollowFlags ==
  /\ call.target \in DebugFunctions =>
       LET d == call.options.debug IN
       /\ call.state = "returned"
       /\ Len(call.logged) = (IF FlagsImply(call.target, d) THEN 1 ELSE 0)
       /\ FlagsImply(call.target, d) =>
            /\ call.logged[1].sink = d.logger
            /\ call.logged[1].message = LinePrefix(call.target) \o "message"
            /\ Len(log) >= 1 /\ log[Len(log)] = call.logged[1]
  /\ (\A k \in 1..Len(log) : log[k].sink \in {"record", "throws"})

C20_Witness ==
  /\ call.target = "debug.logRequest"
  /\ call.options.debug.enabled /\ ~call.options.debug.logRequests
  /\ call.options.debug.logResponses
  /\ call.logged = <<>>
  /\ Len(log) = 1 /\ log[1].message = "RESPONSE: message"

\* ------------------------------------------------------------------------
\* Properties of the debug lines of webSearch
\* ------------------------------------------------------------------------
DebugEnabled == opts.debug.defined /\ opts.debug.enabled

\* webSearch got past its two precondition checks.
PassedValidation ==
  \/ pc \in {"map", "await", "resolved"}
  \/ pc = "rejected" /\ result.error \notin {ProviderError, QueryError}

\* The line before dispatch: the adapter names and the query.
IsDispatchLine(l) ==
  /\ StartsWith(l.message, "Performing search with " \o ToString(N) \o " provider(s): ")
  /\ l.data.query = opts.query
  /\ l.data.providers = [k \in 1..N |-> Adapter(k).name]

\* The line reporting the outcome of adapter i: its success count or its
\* failure detail.
IsOutcomeLine(l, i) ==
  IF tasks[i].outcome.ok
    THEN l.message = "RESPONSE: Received " \o ToString(Len(SearchResults(i)))
                       \o " results from " \o Adapter(i).name
    ELSE /\ l.message = "Search error with provider " \o Adapter(i).name
         /\ l.data.error = tasks[i].outcome.error.message

OutcomeLines(i) == {k \in 1..Len(log) : IsOutcomeLine(log[k], i)}

IsSummaryLine(l) ==
  /\ StartsWith(l.message, "Search complete: ")
  /\ l.data.totalResults = Len(SuccessfulFrom(1))
  /\ l.data.successfulProviders = Cardinality({i \in 1..N : SearchOk(i)})
  /\ l.data.failedProviders = Cardinality({i \in 1..N : SearchFailed(i)})

SummaryLines == {k \in 1..Len(log) : StartsWith(log[k].message, "Search complete: ")}

\* C21: with debugging enabled, a call that passes validation logs first the
\* dispatch line, before any adapter is invoked; one outcome line for every
\* adapter that has completed, and none for an adapter that has not; and,
\* once settled, the summary line last, after every outcome line.
C21_DebugLinesInOrder ==
  /\ (\E i \in 1..N : tasks[i].calls > 0) => PassedValidation
  /\ (DebugEnabled /\ PassedValidation) =>
       /\ Len(log) >= 1 /\ IsDispatchLine(log[1])
       /\ \A i \in 1..N :
            /\ tasks[i].state = "done" => Cardinality(OutcomeLines(i)) = 1
            /\ tasks[i].state # "done" => OutcomeLines(i) = {}
            /\ \A k \in OutcomeLines(i) : k > 1
       /\ IF Settled
            THEN /\ SummaryLines = {Len(log)}
                 /\ IsSummaryLine(log[Len(log)])
                 /\ \A i \in 1..N : \A k \in OutcomeLines(i) : k < Len(log)
            ELSE SummaryLines = {}

\* A direct search() of the adapter m has issued its request.
Requested(m) ==
  call.target = "handle" /\ call.module = m /\ call.requests > 0

\* C22: every request of the Perplexity adapter carries max_results =
\* min(20, max(1, maxResults)), within 1..20, and 10 when the options omit
\* maxResults.
C22_PerplexityClampsMaxResults ==
  Requested("perplexity") =>
    LET asked == call.options.maxResults
        sent == call.request.body.max_results
    IN /\ sent \in 1..20
       /\ asked = NoNumber => sent = 10
       /\ (asked # NoNumber /\ asked > 20) => sent = 20
       /\ (asked # NoNumber /\ asked < 1) => sent = 1
       /\ asked \in 1..20 => sent = asked

C22_Witness ==
  /\ Requested("perplexity") /\ call.options.maxResults = 0
  /\ call.request.body.max_results = 1

\* Index of the first occurrence of sub in s, 0 when there is none.
FirstIndex(s, sub) ==
  IF Includes(s, sub)
    THEN CHOOSE k \in 1..(Len(s) - Len(sub) + 1) :
           /\ SubSeq(s, k, k + Len(sub) - 1) = sub
           /\ \A j \in 1..(k - 1) : SubSeq(s, j, j + Len(sub) - 1) # sub
    ELSE 0

GenericPhrase(category) ==
  CASE category = "credential" -> "authentication issue"
    [] category = "parameters" -> "invalid request parameters"
    [] category = "rate limit" -> "rate limit for this API"
    [] category = "server" -> "server issues"

\* The product name every hint of the adapter's own mentions.
HintPhrase(name) ==
  CASE name = "google" -> "Google"
    [] name = "serpapi" -> "SerpAPI"
    [] name = "brave" -> "Brave"
    [] name = "searxng" -> "SearXNG"
    [] name = "duckduckgo" -> "DuckDuckGo"
    [] name = "perplexity" -> "Perplexity"
    [] OTHER -> name

\* C23: when the failure of an adapter has a status with a category and its
\* message matches a hint of the adapter's own, the troubleshooting text is
\* the category text followed by the adapter's hint.
C23_HintAddedToCategory ==
  \A i \in 1..N : \A c \in StatusCodes :
    (FailedWithStatus(i, c) /\ StatusCategory(c) # "none"
       /\ MessageHintApplies(i)) =>
      LET text == AttachedText(i)
          generic == FirstIndex(text, GenericPhrase(StatusCategory(c)))
          hint == FirstIndex(text, HintPhrase(Adapter(i).name))
      IN generic > 0 /\ hint > generic

\* ------------------------------------------------------------------------
\* Properties of the settling of webSearch
\* ------------------------------------------------------------------------
\* The map callback of adapter i has completed (trivially when the list has
\* no adapter i).
CallbackDone(i) == i > N \/ tasks[i].state = "done"

\* C24: once dispatched, webSearch does not settle while the search of any
\* adapter is unsettled, whatever the other adapters settled with; and if the
\* search of every adapter eventually settles, webSearch eventually settles.
C24_AwaitsAllThenSettles ==
  /\ []((Settled /\ PassedValidation) =>
          \A i \in 1..MaxProviders : CallbackDone(i))
  /\ (\A i \in 1..MaxProviders : <>(CallbackDone(i) \/ Settled)) => <>Settled

C24_Witness ==
  /\ pc = "await" /\ N = 2
  /\ SearchFailed(1) /\ tasks[2].state = "pending"

\* C25: webSearch rejects only with the "provider is required" error, the
\* "query or ID list" error or the aggregate "All N provider(s) failed"
\* error; what an adapter threw or rejected with, an Error or not, is never
\* the rejection of webSearch itself.
C25_OnlyThreeRejections ==
  pc = "rejected" =>
    /\ \/ result.error = "At least one search provider is required"
       \/ result.error = "A search query or ID list (for Arxiv) is required"
       \/ StartsWith(result.error,
                     "All " \o ToString(N) \o " provider(s) failed:\n\n"
                       \o "Search with provider '")
    /\ \A i \in 1..N :
         SearchFailed(i) => result.error # tasks[i].outcome.error.message

C25_Witness ==
  /\ pc = "rejected" /\ N = 2
  /\ SearchFailed(1) /\ tasks[1].outcome.error.kind = "NonError"
  /\ SearchFailed(2) /\ tasks[2].state = "done" /\ tasks[2].requests = 0
  /\ Adapter(2).kind = "perplexity"

\* The adapters whose recorded outcome is a failure / a success.
RecordedFailures == {i \in 1..N : tasks[i].state = "done" /\ tasks[i].value.failed}
RecordedSuccesses == {i \in 1..N : tasks[i].state = "done" /\ ~tasks[i].value.failed}

\* C26: every adapter gets exactly one recorded outcome, a success with the
\* adapter's result list and no error text, or a failure with an error text
\* and no results; once webSearch got past Promise.all, successes and
\* failures add up to the number of adapters supplied, in the records and in
\* the summary line.
C26_OutcomeIsTaggedUnion ==
  /\ \A i \in 1..N : tasks[i].state = "done" =>
       /\ tasks[i].value.provider = Adapter(i).name
       /\ Cardinality({k \in 1..Len(order) : order[k] = i}) = 1
       /\ tasks[i].value.failed = ~tasks[i].outcome.ok
       /\ IF tasks[i].outcome.ok
            THEN /\ tasks[i].value.results = SearchResults(i)
                 /\ tasks[i].value.message = ""
            ELSE /\ tasks[i].value.results = <<>>
                 /\ tasks[i].value.message # ""
  /\ (Settled /\ PassedValidation) =>
       /\ Cardinality(RecordedSuccesses) + Cardinality(RecordedFailures) = N
       /\ \A k \in SummaryLines :
            log[k].data.successfulProviders + log[k].data.failedProviders = N

C26_Witness ==
  /\ pc = "resolved" /\ N = 2 /\ DebugEnabled
  /\ Cardinality(RecordedSuccesses) = 1 /\ Cardinality(RecordedFailures) = 1
  /\ SummaryLines # {}

\* ------------------------------------------------------------------------
\* Properties of webSearch over the adapters of the SDK
\* ------------------------------------------------------------------------
\* C27: whatever the search of a Perplexity, Parallel or Arxiv adapter
\* rejects with is a plain Error without status code, also when its request
\* failed with an HttpError; so the troubleshooting text webSearch attaches
\* to the failure has none of the status-code texts.
C27_BuiltinFailuresArePlainErrors ==
  \A i \in 1..N :
    (SearchFailed(i) /\ Adapter(i).kind \in {"perplexity", "parallel", "arxiv"}) =>
       /\ tasks[i].outcome.error.kind = "Error"
       /\ tasks[i].outcome.error.statusCode = NoStatus
       /\ AttachedText(i) # StatusSuggestion(401)
       /\ AttachedText(i) # StatusSuggestion(400)
       /\ AttachedText(i) # StatusSuggestion(429)
       /\ AttachedText(i) # StatusSuggestion(500)
       /\ NoStatusCategoryText(AttachedText(i))

C27_Witness ==
  /\ N = 1 /\ Adapter(1).kind = "parallel" /\ pc = "rejected"
  /\ SearchFailed(1) /\ tasks[1].requests = 1
  /\ tasks[1].transport.error.kind = "HttpError"
  /\ tasks[1].transport.error.statusCode = 401

\* A call without query, with an idList, to an arxiv adapter and others.
IdListToMixedList ==
  /\ N >= 2 /\ ~Truthy(opts.query) /\ Truthy(opts.idList)
  /\ ArxivSupplied /\ \E i \in 1..N : Adapter(i).name # "arxiv"

\* C28: a call without query, with an idList, to an arxiv adapter and others
\* passes validation and searches every adapter of the list once; a
\* Perplexity adapter in the list rejects with its "requires a query" error
\* without a request, which is recorded as that adapter's failure; the call
\* resolves with the results of the other adapters when there are any, and
\* rejects with the aggregate error, carrying that rejection, when every
\* adapter failed.
C28_IdListGoesToEveryAdapter ==
  (IdListToMixedList /\ pc # "start") =>
    /\ PassedValidation
    /\ pc \in {"await", "resolved", "rejected"} =>
         \A i \in 1..N : tasks[i].calls = 1
    /\ \A i \in 1..N :
         (Adapter(i).kind = "perplexity" /\ tasks[i].state = "done") =>
            /\ SearchFailed(i) /\ tasks[i].requests = 0
            /\ tasks[i].outcome.error.message = "Perplexity search requires a query."
            /\ tasks[i].value.failed
            /\ Includes(tasks[i].value.message, "Perplexity search requires a query.")
    /\ Settled =>
         IF \E i \in 1..N : SearchOk(i) /\ Len(SearchResults(i)) > 0
           THEN pc = "resolved" /\ result.results = SuccessfulFrom(1)
           ELSE (\A i \in 1..N : SearchFailed(i)) =>
                  /\ pc = "rejected"
                  /\ StartsWith(result.error, "All " \o ToString(N) \o " provider(s) failed")
                  /\ \A i \in 1..N :
                       SearchFailed(i) => Includes(result.error, tasks[i].value.message)

C28_Witness ==
  /\ IdListToMixedList /\ pc = "resolved"
  /\ \E i \in 1..N : Adapter(i).kind = "perplexity" /\ SearchFailed(i)
                         /\ tasks[i].calls = 1
  /\ \E i \in 1..N : Adapter(i).name = "arxiv" /\ SearchOk(i)
                         /\ Len(SearchResults(i)) > 0

\* ------------------------------------------------------------------------
\* Properties of the Parallel adapter's request
\* ------------------------------------------------------------------------
\* C29: the request of the Parallel adapter carries as max_results the
\* maxResults of the options when they give one, else the maxResults the
\* adapter was configured with, and 10 only when neither gives a value.
C29_ParallelMaxResultsFromConfig ==
  Requested("parallel") =>
    LET asked == call.options.maxResults
        configured == call.config.maxResults
        sent == call.request.body.max_results
    IN /\ (asked # NoNumber /\ asked # 0) => sent = asked
       /\ (asked = NoNumber /\ configured # NoNumber) => sent = configured
       /\ (asked = NoNumber /\ configured = NoNumber) => sent = 10

\* ------------------------------------------------------------------------
\* mcp/index.ts (asMcp) and mcp/cli.ts
\* ------------------------------------------------------------------------
\* The keys of providerFactory.
providerFactory ==
  {"google", "serpapi", "brave", "exa", "tavily", "searxng", "arxiv",
   "duckduckgo"}

\* create<Provider>Provider(config) of an adapter whose module is outside
\* the modelled sources: a handle with the adapter's name and the config.
CreateExternalProvider(name, config) ==
  [threw |-> FALSE, message |-> "",
   handle |-> [name |-> name, kind |-> "external", config |-> config]]

\* The factory call behind the name.
CreateByName(name, config) ==
  CASE name = "perplexity" ->
         createPerplexityProvider([PerplexityConfig(config.apiKey) EXCEPT
                                     !.baseUrl = config.baseUrl])
    [] name = "parallel" ->
         createParallelProvider([ParallelConfig(config.apiKey, NoNumber) EXCEPT
                                   !.baseUrl = config.baseUrl])
    [] name = "arxiv" ->
         createArxivProvider([ArxivConfig(config.baseUrl) EXCEPT
                                !.apiKey = config.apiKey])
    [] OTHER -> CreateExternalProvider(name, config)

\* A configured adapter of every name the SDK exports.
McpHandles ==
  {CreateByName(n, [apiKey |-> "k", baseUrl |-> NoValue]).handle :
     n \in {"google", "serpapi", "brave", "exa", "tavily", "arxiv",
            "duckduckgo", "perplexity", "parallel"}}
    \cup {CreateByName("searxng",
             [apiKey |-> NoValue, baseUrl |-> "http://localhost:8080"]).handle}

\* JSON.stringify(p.config): a property whose value is undefined is left
\* out.
StringifyConfig(config) ==
  "{" \o Join((IF config.apiKey = NoValue THEN <<>>
                ELSE <<"\"apiKey\":\"" \o config.apiKey \o "\"">>)
               \o (IF config.baseUrl = NoValue THEN <<>>
                   ELSE <<"\"baseUrl\":\"" \o config.baseUrl \o "\"">>), ",")
      \o "}"

\* JSON.stringify({ providers: providers.map(p => ({ name, config })) })
StringifyProviders(providers) ==
  "{\"providers\":["
    \o Join([k \in 1..Len(providers) |->
               "{\"name\":\"" \o providers[k].name \o "\",\"config\":"
                 \o StringifyConfig(providers[k].config) \o "}"], ",")
    \o "]}"

\* asMcp(providers)
asMcp(providers) ==
  IF Len(providers) = 0
    THEN [threw |-> TRUE,
          message |-> "asMcp requires at least one configured search provider.",
          env |-> NoValue]
    ELSE [threw |-> FALSE, message |-> "",
          env |-> StringifyProviders(providers)]

\* The text of s from position k on.
From(s, k) == IF k > Len(s) THEN "" ELSE SubSeq(s, k, Len(s))

\* The text of s before the first occurrence of the character stop.
RECURSIVE Before(_, _)
Before(s, stop) ==
  IF Len(s) = 0 \/ SubSeq(s, 1, 1) = stop THEN ""
  ELSE SubSeq(s, 1, 1) \o Before(SubSeq(s, 2, Len(s)), stop)

\* JSON.parse of a string property of an object text; undefined when the
\* object has no such property.
ParseProperty(text, key) ==
  LET lead == "\"" \o key \o "\":\"" IN
  IF Includes(text, lead)
    THEN LET at == CHOOSE k \in 1..(Len(text) - Len(lead) + 1) :
                     SubSeq(text, k, k + Len(lead) - 1) = lead
         IN Before(From(text, at + Len(lead)), "\"")
    ELSE NoValue

\* JSON.parse of the elements of the providers array: rest is the text after
\* the opening bracket or after an element.
RECURSIVE ParseEntries(_)
ParseEntries(rest) ==
  IF Len(rest) = 0 \/ SubSeq(rest, 1, 1) \notin {"{", ","} THEN <<>>
  ELSE LET lead == "{\"name\":\""
           afterLead == From(rest, (IF SubSeq(rest, 1, 1) = "," THEN 2 ELSE 1)
                                     + Len(lead))
           name == Before(afterLead, "\"")
           afterName == From(afterLead, Len(name) + Len("\",\"config\":") + 1)
           configText == Before(afterName, "}") \o "}"
       IN <<[name |-> name,
             config |-> [apiKey |-> ParseProperty(configText, "apiKey"),
                         baseUrl |-> ParseProperty(configText, "baseUrl")]]>>
            \o ParseEntries(From(afterName, Len(configText) + 2))

\* providerConfigs.map(...): the handles created up to the first entry whose
\* name has no factory or whose factory throws.
RECURSIVE Hydrate(_, _)
Hydrate(providerConfigs, acc) ==
  IF Len(providerConfigs) = 0
    THEN [threw |-> FALSE, message |-> "", hydrated |-> acc]
  ELSE LET pc0 == Head(providerConfigs) IN
       IF pc0.name \notin providerFactory
         THEN [threw |-> TRUE,
               message |-> "Unknown provider specified in config: " \o pc0.name,
               hydrated |-> acc]
       ELSE LET made == CreateByName(pc0.name, pc0.config) IN
            IF made.threw
              THEN [threw |-> TRUE, message |-> made.message, hydrated |-> acc]
              ELSE Hydrate(Tail(providerConfigs), Append(acc, made.handle))

\* asMcp(providers) is called with the configured adapters.
AsMcp ==
  /\ mcp.state = "idle"
  /\ LET r == asMcp(mcp.providers) IN
     mcp' = [mcp EXCEPT
               !.state = IF r.threw THEN "asMcp threw" ELSE "configured",
               !.error = r.message,
               !.env = r.env]
  /\ UNCHANGED <<engineVars, log, adapterVars>>

\* The client runs the command asMcp returned with its env: main() of the
\* CLI up to the call of server.start (lines 21-81).
CliMain ==
  /\ mcp.state = "configured"
  /\ IF ~Truthy(mcp.env)
       THEN mcp' = [mcp EXCEPT
                      !.state = "exited", !.exitCode = 1,
                      !.error = "Error: SEARCH_SDK_MCP_CONFIG environment variable must be set."]
     ELSE LET providerConfigs ==
                ParseEntries(From(mcp.env, Len("{\"providers\":[") + 1)) IN
          IF Len(providerConfigs) = 0
            THEN mcp' = [mcp EXCEPT
                           !.state = "exited", !.exitCode = 1,
                           !.error = "The \"providers\" array in your configuration is empty."]
          ELSE LET h == Hydrate(providerConfigs, <<>>) IN
               IF h.threw
                 THEN mcp' = [mcp EXCEPT
                                !.state = "exited", !.exitCode = 1,
                                !.error = h.message]
                 ELSE mcp' = [mcp EXCEPT
                                !.state = "starting", !.hydrated = h.hydrated]
  /\ UNCHANGED <<engineVars, log, adapterVars>>

\* server.start({ transportType: 'stdio' }) resolves.
ServerStart ==
  /\ mcp.state = "starting"
  /\ mcp' = [mcp EXCEPT !.state = "running"]
  /\ UNCHANGED <<engineVars, log, adapterVars>>

\* Lists of configured adapters, the empty list included.
RECURSIVE McpProviderLists(_)
McpProviderLists(n) ==
  IF n = 0 THEN {<<>>}
  ELSE McpProviderLists(n - 1)
         \cup {Append(l, h) : l \in {x \in McpProviderLists(n - 1) : Len(x) = n - 1},
                               h \in McpHandles}

InitMcp ==
  /\ opts = [provider |-> [defined |-> FALSE, list |-> <<>>],
             query |-> NoValue, idList |-> NoValue, maxResults |-> NoNumber,
             region |-> NoValue, language |-> NoValue, debug |-> NoDebug]
  /\ errorPool = {}
  /\ pc = "idle"
  /\ mapIdx = 0
  /\ tasks = <<>>
  /\ order = <<>>
  /\ result = [results |-> <<>>, error |-> ""]
  /\ log = <<>>
  /\ singletons = ModuleSingletons
  /\ handles = <<>>
  /\ call = NoCall
  /\ mcp \in {[NoMcp EXCEPT !.providers = l] : l \in McpProviderLists(MaxProviders)}

NextMcp == AsMcp \/ CliMain \/ ServerStart

SpecMcp == InitMcp /\ [][NextMcp]_vars

\* ------------------------------------------------------------------------
\* Properties of the MCP bridge
\* ------------------------------------------------------------------------
McpNames(l) == [k \in 1..Len(l) |-> l[k].name]

\* C30: asMcp throws on an empty list; for a non-empty list of configured
\* adapters of the SDK, the CLI run with the environment asMcp produced
\* hydrates one adapter per entry, with the same names in the same order, and
\* goes on to start the server instead of exiting.
C30_McpRoundTrip ==
  /\ (mcp.providers = <<>> /\ mcp.state # "idle") => mcp.state = "asMcp threw"
  /\ mcp.providers # <<>> =>
       /\ mcp.state \notin {"asMcp threw", "exited"}
       /\ mcp.state \in {"starting", "running"} =>
            McpNames(mcp.hydrated) = McpNames(mcp.providers)

=============================================================================
